---- MODULE Spec2Model ----
(***************************************************************************)
(* ms2cc: conversion of an MSBuild log into a compilation database.        *)
(*                                                                         *)
(* The state machines that share this module:                              *)
(*   SpecIndex    stage 1 of the pipeline (pipeline.rs run_lookup_stage):  *)
(*                the walker thread, the entry channel, the build_file_map *)
(*                workers, the shared FileIndex and the error collector;   *)
(*   SpecScan     the log scanner (log_scan.rs LogLineIter::next), one     *)
(*                physical line per step;                                  *)
(*   SpecScanTail the same scanner over lines that end in quotes and       *)
(*                blanks;                                                  *)
(*   SpecBuild    the command builder (command_builder.rs assemble);       *)
(*   SpecTok      the tokenizer (lib.rs tokenize_compile_command), one     *)
(*                character per step;                                      *)
(*   SpecWalk     the file walker (fs_index.rs FileWalker::next);          *)
(*   SpecStage2   stage 2 (pipeline.rs run_database_stage), FairStage2     *)
(*                with the scheduling of its threads;                      *)
(*   SpecPipeline the two stages in sequence;                              *)
(*   SpecMain     the regex-based converter (main.rs process_msbuild_log), *)
(*                one line of the log per step.                            *)
(* Strings are sequences of one-character strings, so that lower-casing,   *)
(* suffix tests and substring searches are computed character by character.*)
(***************************************************************************)
EXTENDS Integers, Sequences, FiniteSets, TLC

VARIABLES
    \* ---- stage 1 (pipeline.rs run_lookup_stage) ----
    fs,             \* the regular files of the source tree, as on disk
    to_walk,        \* files the walker has not yet yielded
    entry_ch,       \* the unbounded entry channel (FIFO of normalized paths)
    walker_done,    \* the walker thread has finished (its sender is dropped)
    wpc,            \* per worker: "recv" | "insert" | "done"
    held,           \* per worker: the path received and not yet inserted
    file_index,     \* the DashMap: lower-cased file name -> IndexedPath
    emitted,        \* history: every path the walker sent, in order
    applied,        \* history: every path applied to the index, in order
    main_pc,        \* "joining" | "returned" (build_lookup_tree has returned)
    lookup          \* the last FileIndex lookup made after stage 1

idxVars == <<fs, to_walk, entry_ch, walker_done, wpc, held, file_index,
             emitted, applied, main_pc, lookup>>

\* ---- the log scanner (log_scan.rs LogLineIter) ----
VARIABLES
    file_extensions,  \* the configured source-file extensions
    pending_command,  \* Option<String>: None (Idle) or Some(buffer)
    scan_out,         \* every item next() has returned, in order
    scan_done,        \* next() has returned None (end of the log)
    lines_read,       \* history: the lines read so far (terminator trimmed)
    acc_lines,        \* history: lines read since the pending command began
    read_errors       \* history: number of failed reads

scanVars == <<file_extensions, pending_command, scan_out, scan_done,
              lines_read, acc_lines, read_errors>>

\* ---- the command builder (command_builder.rs CommandBuilder::build) ----
VARIABLES
    b_index,          \* the FileIndex handed to the builder
    b_tokens,         \* the token vector of the last build call
    b_results,        \* what that call returned
    b_trace           \* history: per result, what its resolution consulted

buildVars == <<b_index, b_tokens, b_results, b_trace>>

\* ---- stage 2 (pipeline.rs generate_compile_commands, run_database_stage) ----
VARIABLES
    log_reader,       \* the coordinator's RefCell<Option<R>>: "Some" | "None"
    caller_pc,        \* the coordinator's caller: "idle" | "generating" | "panicked"
    gen_calls,        \* history: calls of generate_compile_commands so far
    gen_runs,         \* history: times run_database_stage was entered
    lookup_calls,     \* history: calls of build_lookup_tree so far
    reader_state,     \* the log reader: "ok" | "broken" (every read fails)
    token_ch,         \* channel scanner -> builder (token vectors)
    cmd_ch,           \* channel builder -> main (records)
    err_ch,           \* channel scanner and builder -> error collector
    bld_pc,           \* builder thread: "idle" | "recv" | "send" | "done"
    bld_events,       \* builder thread: events of the current build not yet sent
    col_pc,           \* error collector thread: "idle" | "run" | "done"
    errors,           \* the collector's list
    m_pc,             \* run_database_stage: "idle" | "collecting" | "joining" | "returned"
    compile_commands  \* the records main has collected

s2Vars == <<log_reader, caller_pc, gen_calls, gen_runs, lookup_calls,
            reader_state, token_ch, cmd_ch, err_ch, bld_pc, bld_events,
            col_pc, errors, m_pc, compile_commands>>

\* ---- the tokenizer (lib.rs tokenize_compile_command), one character per step ----
VARIABLES
    tk_line,          \* the command line being tokenized
    tk_pos,           \* chars of tk_line consumed so far
    tk_state,         \* the locals of tokenize_compile_command
    tk_split,         \* the tokens after the splitting loop (None before)
    tk_out            \* the returned vector (None before the return)

tokVars == <<tk_line, tk_pos, tk_state, tk_split, tk_out>>

\* ---- the file walker (fs_index.rs FileWalker) ----
VARIABLES
    wk_tree,          \* the directory tree walked, as on disk
    wk_queue,         \* FileWalker.queue
    wk_items,         \* every item next() has returned, in order
    wk_done           \* next() has returned None

walkVars == <<wk_tree, wk_queue, wk_items, wk_done>>

\* ---- the error path of stage 1 (pipeline.rs 115-124, 152-156, 182-184) ----
VARIABLES
    ix_err_left,      \* Err items the walker has still to yield
    ix_err_ch,        \* the error channel of run_lookup_stage
    ix_col_pc,        \* its error collector thread: "run" | "done"
    ix_errors,        \* the collector's list
    ix_err_sent       \* history: every error the walker thread sent, in order

lerrVars == <<ix_err_left, ix_err_ch, ix_col_pc, ix_errors, ix_err_sent>>

\* ---- history of the error channel of stage 2 ----
VARIABLES
    scan_sent,        \* every error the scanner thread sent, in order
    bld_sent          \* every error the builder thread sent, in order

sentVars == <<scan_sent, bld_sent>>

\* ---- the regex-based converter (main.rs process_msbuild_log) ----
VARIABLES
    prefix_to_project, \* HashMap<u32, ProjectContext>
    current_project,   \* Option<ProjectContext>
    current_prefix,    \* Option<u32>
    command_count,     \* ProcessingState::command_count
    log_commands,      \* the compile_commands vector of process_msbuild_log
    log_done,          \* process_msbuild_log has returned the vector
    log_lines,         \* history: the lines read so far, in order
    log_read_failures  \* history: number of lines that failed to be read

mainVars == <<prefix_to_project, current_project, current_prefix,
              command_count, log_commands, log_done, log_lines,
              log_read_failures>>

vars == <<idxVars, scanVars, buildVars, s2Vars, tokVars, walkVars, lerrVars,
          sentVars, mainVars>>

(***************************************************************************)
(* Bounds of the model.                                                    *)
(***************************************************************************)
MaxFiles == 3
NumWorkers == 2
MaxWalkErrors == 2

Workers == 1..NumWorkers

(***************************************************************************)
(* Characters and strings.                                                 *)
(***************************************************************************)
None == [kind |-> "None"]
Some(v) == [kind |-> "Some", value |-> v]

UpperChars == <<"A", "B", "C", "D", "E", "F", "G", "H", "I", "J", "K", "L", "M",
                "N", "O", "P", "Q", "R", "S", "T", "U", "V", "W", "X", "Y", "Z">>
LowerChars == <<"a", "b", "c", "d", "e", "f", "g", "h", "i", "j", "k", "l", "m",
                "n", "o", "p", "q", "r", "s", "t", "u", "v", "w", "x", "y", "z">>

LowerChar(c) ==
    IF \E i \in 1..Len(UpperChars) : UpperChars[i] = c
    THEN LowerChars[CHOOSE i \in 1..Len(UpperChars) : UpperChars[i] = c]
    ELSE c

to_lowercase(s) == [i \in 1..Len(s) |-> LowerChar(s[i])]

\* Positions of character c in s.
Positions(s, c) == {i \in 1..Len(s) : s[i] = c}

Last(s) == s[Len(s)]
Front(s) == SubSeq(s, 1, Len(s) - 1)

SetMax(S) == CHOOSE m \in S : \A x \in S : x <= m
SetMin(S) == CHOOSE m \in S : \A x \in S : m <= x

(***************************************************************************)
(* std::path, Unix flavour: "/" separates components, a leading "/" is the *)
(* root, and a path with a root is absolute.  Paths compare by components  *)
(* (empty and "." components do not count), so path values are kept in the *)
(* canonical form make_path builds.  The model's paths hold no leading "." *)
(* component.                                                              *)
(***************************************************************************)
RECURSIVE split(_, _)
split(s, c) ==
    IF Positions(s, c) = {} THEN <<s>>
    ELSE LET i == SetMin(Positions(s, c))
         IN  <<SubSeq(s, 1, i - 1)>> \o split(SubSeq(s, i + 1, Len(s)), c)

components(p) ==
    SelectSeq(split(p, "/"), LAMBDA x : x # <<>> /\ x # <<".">>)

has_root(p) == p # <<>> /\ p[1] = "/"

RECURSIVE join_components(_)
join_components(cs) ==
    IF cs = <<>> THEN <<>>
    ELSE IF Len(cs) = 1 THEN cs[1]
    ELSE cs[1] \o <<"/">> \o join_components(Tail(cs))

make_path(root, cs) ==
    (IF root THEN <<"/">> ELSE <<>>) \o join_components(cs)

\* PathBuf::from
path_from(s) == make_path(has_root(s), components(s))

path_is_absolute(p) == has_root(p)

path_file_name(p) ==
    LET cs == components(p)
    IN  IF cs = <<>> \/ Last(cs) = <<".", ".">> THEN None
        ELSE Some(Last(cs))

path_parent(p) ==
    LET cs == components(p)
    IN  IF cs = <<>> THEN None
        ELSE Some(make_path(has_root(p), Front(cs)))

\* Path::extension: the part of the file name after its last dot; none when
\* there is no dot or the only dot starts the name.
path_extension(p) ==
    LET fname == path_file_name(p)
    IN  IF fname = None THEN None
        ELSE LET dots == Positions(fname.value, ".")
             IN  IF dots = {} \/ SetMax(dots) = 1 THEN None
                 ELSE Some(SubSeq(fname.value, SetMax(dots) + 1,
                                  Len(fname.value)))

\* PathBuf::push: an absolute argument replaces the path.
path_push(base, x) ==
    IF has_root(x) THEN path_from(x)
    ELSE make_path(has_root(base), components(base) \o components(x))

\* PathBuf::pop: false, and no change, when the path has no parent.
path_pop(p) ==
    IF path_parent(p) = None THEN [ok |-> FALSE, path |-> p]
    ELSE [ok |-> TRUE, path |-> path_parent(p).value]

(***************************************************************************)
(* IndexedPath (lib.rs).                                                   *)
(***************************************************************************)
Ambiguous == [kind |-> "Ambiguous"]

unique(path) == [kind |-> "Unique", path |-> path]

mark_conflict(entry) == Ambiguous

parent(entry) ==
    IF entry.kind = "Unique" THEN Some(entry.path) ELSE None

(***************************************************************************)
(* The source tree.  Two of the files differ only by case, which a         *)
(* case-sensitive file system allows in one directory.                     *)
(***************************************************************************)
F_a_m  == <<"/", "a", "/", "m", ".", "c">>
F_a_M  == <<"/", "a", "/", "M", ".", "c">>
F_b_m  == <<"/", "B", "/", "m", ".", "c">>
F_a_u  == <<"/", "a", "/", "u", ".", "c">>

AllFiles == {F_a_m, F_a_M, F_b_m, F_a_u}

Trees == {t \in SUBSET AllFiles : Cardinality(t) <= MaxFiles}

\* fs_index.rs normalize_path: the whole path lower-cased.
normalize_path(p) == to_lowercase(p)

\* pipeline.rs normalize_component.
normalize_component(c) == Some(to_lowercase(c))

(***************************************************************************)
(* tree.entry(name).and_modify(mark_conflict).or_insert(unique(parent)):   *)
(* one atomic step under the map's shard lock.                             *)
(***************************************************************************)
\* Variant: a conflicting sighting drops the entry instead of marking it.
entry_remove_on_conflict(tree, name, par) ==
    IF name \in DOMAIN tree
    THEN [n \in DOMAIN tree \ {name} |-> tree[n]]
    ELSE [n \in DOMAIN tree \cup {name} |->
            IF n = name THEN unique(par) ELSE tree[n]]

\* Variant: tree.entry(name).or_insert(..) without and_modify: first one wins.
entry_keep_first(tree, name, par) ==
    IF name \in DOMAIN tree
    THEN tree
    ELSE [n \in DOMAIN tree \cup {name} |->
            IF n = name THEN unique(par) ELSE tree[n]]

entry_or_insert(tree, name, par) ==
    IF name \in DOMAIN tree
    THEN [tree EXCEPT ![name] = mark_conflict(@)]
    ELSE [n \in DOMAIN tree \cup {name} |->
            IF n = name THEN unique(par) ELSE tree[n]]

\* The body of build_file_map's loop for one received path.
insert_path(tree, p) ==
    LET fname == path_file_name(p)
        par   == path_parent(p)
    IN  IF fname.kind = "Some" /\ par.kind = "Some"
        THEN LET nf == normalize_component(fname.value)
                 np == normalize_component(par.value)
             IN  IF nf.kind = "Some" /\ np.kind = "Some"
                 THEN entry_or_insert(tree, nf.value, np.value)
                 ELSE tree
        ELSE tree

EmptyIndex == [n \in {} |-> Ambiguous]

NoLookup == [name |-> <<>>, result |-> [kind |-> "NotAsked"]]

\* The scanner and the builder take no part in stage 1.
ScanIdle ==
    /\ file_extensions = <<>>
    /\ pending_command = None
    /\ scan_out = <<>>
    /\ scan_done = FALSE
    /\ lines_read = <<>>
    /\ acc_lines = <<>>
    /\ read_errors = 0

BuildIdle ==
    /\ b_index = EmptyIndex
    /\ b_tokens = <<>>
    /\ b_results = <<>>
    /\ b_trace = <<>>

\* PipelineCoordinator::new: the reader is in its slot, nothing of stage 2
\* has been spawned.
Stage2Idle ==
    /\ log_reader = "Some"
    /\ caller_pc = "idle"
    /\ gen_calls = 0
    /\ gen_runs = 0
    /\ lookup_calls = 0
    /\ reader_state = "ok"
    /\ token_ch = <<>>
    /\ cmd_ch = <<>>
    /\ err_ch = <<>>
    /\ bld_pc = "idle"
    /\ bld_events = <<>>
    /\ col_pc = "idle"
    /\ errors = <<>>
    /\ m_pc = "idle"
    /\ compile_commands = <<>>
    /\ scan_sent = <<>>
    /\ bld_sent = <<>>

\* No line is being tokenized.
TokIdle ==
    /\ tk_line = <<>>
    /\ tk_pos = 0
    /\ tk_state = None
    /\ tk_split = None
    /\ tk_out = None

\* No walker exists.
WalkIdle ==
    /\ wk_tree = {}
    /\ wk_queue = <<>>
    /\ wk_items = <<>>
    /\ wk_done = TRUE

\* ProcessingState::new and an empty command list: no log has been read.
MainIdle ==
    /\ prefix_to_project = [n \in {} |-> None]
    /\ current_project = None
    /\ current_prefix = None
    /\ command_count = 0
    /\ log_commands = <<>>
    /\ log_done = FALSE
    /\ log_lines = <<>>
    /\ log_read_failures = 0

InitIndex ==
    /\ fs \in Trees
    /\ to_walk = fs
    /\ entry_ch = <<>>
    /\ walker_done = FALSE
    /\ wpc = [w \in Workers |-> "recv"]
    /\ held = [w \in Workers |-> <<>>]
    /\ file_index = EmptyIndex
    /\ emitted = <<>>
    /\ applied = <<>>
    /\ main_pc = "joining"
    /\ lookup = NoLookup
    /\ ix_err_left \in 0..MaxWalkErrors
    /\ ix_err_ch = <<>>
    /\ ix_col_pc = "run"
    /\ ix_errors = <<>>
    /\ ix_err_sent = <<>>
    /\ ScanIdle
    /\ BuildIdle
    /\ Stage2Idle
    /\ TokIdle
    /\ WalkIdle
    /\ MainIdle

(***************************************************************************)
(* The walker thread (pipeline.rs 137-159): each eligible file is yielded  *)
(* once, as its lower-cased path, in the order the directory listing       *)
(* happens to give, and sent on the entry channel.  The walker's Err items  *)
(* go to the error channel, which never touches the index.                 *)
(***************************************************************************)
WalkerSend ==
    /\ ~walker_done
    /\ \E f \in to_walk :
         /\ to_walk' = to_walk \ {f}
         /\ entry_ch' = Append(entry_ch, normalize_path(f))
         /\ emitted' = Append(emitted, normalize_path(f))
    /\ UNCHANGED <<fs, walker_done, wpc, held, file_index, applied,
                   main_pc, lookup>>
    /\ UNCHANGED <<scanVars, buildVars, s2Vars,
                   tokVars, walkVars, lerrVars, sentVars, mainVars>>

\* The walker yields an Err item (pipeline.rs 152-156): it goes to the error
\* channel.  The k-th failure of a walk is the Io error of the k-th directory
\* that could not be read.
WalkerError(k) == [error |-> "Io", dir |-> k]

WalkerSendError ==
    /\ ~walker_done
    /\ ix_err_left > 0
    /\ ix_err_left' = ix_err_left - 1
    /\ ix_err_ch' = Append(ix_err_ch, WalkerError(Len(ix_err_sent) + 1))
    /\ ix_err_sent' = Append(ix_err_sent, WalkerError(Len(ix_err_sent) + 1))
    /\ UNCHANGED <<ix_col_pc, ix_errors>>
    /\ UNCHANGED <<idxVars, scanVars, buildVars, s2Vars,
                   tokVars, walkVars, sentVars, mainVars>>

\* The walker iterator is exhausted: the thread ends and drops its senders.
WalkerFinish ==
    /\ ~walker_done
    /\ to_walk = {}
    /\ ix_err_left = 0
    /\ walker_done' = TRUE
    /\ UNCHANGED <<fs, to_walk, entry_ch, wpc, held, file_index, emitted,
                   applied, main_pc, lookup>>
    /\ UNCHANGED <<scanVars, buildVars, s2Vars,
                   tokVars, walkVars, lerrVars, sentVars, mainVars>>

(***************************************************************************)
(* build_file_map (pipeline.rs 279-298), one worker w.                     *)
(***************************************************************************)
\* recv_timeout returns Ok(path): a message was available.
WorkerRecv(w) ==
    /\ wpc[w] = "recv"
    /\ entry_ch # <<>>
    /\ held' = [held EXCEPT ![w] = Head(entry_ch)]
    /\ entry_ch' = Tail(entry_ch)
    /\ wpc' = [wpc EXCEPT ![w] = "insert"]
    /\ UNCHANGED <<fs, to_walk, walker_done, file_index, emitted, applied,
                   main_pc, lookup>>
    /\ UNCHANGED <<scanVars, buildVars, s2Vars,
                   tokVars, walkVars, lerrVars, sentVars, mainVars>>

\* The loop body: the received path is applied to the shared map.
WorkerInsert(w) ==
    /\ wpc[w] = "insert"
    /\ file_index' = insert_path(file_index, held[w])
    /\ applied' = Append(applied, held[w])
    /\ held' = [held EXCEPT ![w] = <<>>]
    /\ wpc' = [wpc EXCEPT ![w] = "recv"]
    /\ UNCHANGED <<fs, to_walk, entry_ch, walker_done, emitted, main_pc,
                   lookup>>
    /\ UNCHANGED <<scanVars, buildVars, s2Vars,
                   tokVars, walkVars, lerrVars, sentVars, mainVars>>

\* recv_timeout returns Err(Disconnected): channel empty, every sender gone.
\* `while let Ok(..)` ends the loop.
WorkerDisconnected(w) ==
    /\ wpc[w] = "recv"
    /\ entry_ch = <<>>
    /\ walker_done
    /\ wpc' = [wpc EXCEPT ![w] = "done"]
    /\ UNCHANGED <<fs, to_walk, entry_ch, walker_done, held, file_index,
                   emitted, applied, main_pc, lookup>>
    /\ UNCHANGED <<scanVars, buildVars, s2Vars,
                   tokVars, walkVars, lerrVars, sentVars, mainVars>>

\* recv_timeout returns Err(Timeout): nothing arrived within RECV_TIMEOUT_MS
\* while the walker still holds its sender.  `while let Ok(..)` ends the loop
\* on this error as well.
recv_timeout_ends_loop == TRUE

WorkerTimeout(w) ==
    /\ wpc[w] = "recv"
    /\ entry_ch = <<>>
    /\ ~walker_done
    /\ wpc' = [wpc EXCEPT ![w] =
                 IF recv_timeout_ends_loop THEN "done" ELSE "recv"]
    /\ UNCHANGED <<fs, to_walk, entry_ch, walker_done, held, file_index,
                   emitted, applied, main_pc, lookup>>
    /\ UNCHANGED <<scanVars, buildVars, s2Vars,
                   tokVars, walkVars, lerrVars, sentVars, mainVars>>

(***************************************************************************)
(* The error collector of stage 1 (pipeline.rs 118-124): `for error in     *)
(* error_rx.iter()` pushes each error on the list and ends when the        *)
(* channel is empty and every sender is gone.  The main thread dropped its *)
(* sender at line 175, before the joins; the walker's goes with its thread.*)
(***************************************************************************)
\* Variant: the collector ends as soon as it finds the channel empty.
lookup_collector_ends_when_empty(ch, senders_gone) == ch = <<>>

lookup_collector_ends(ch, senders_gone) == ch = <<>> /\ senders_gone

LookupCollectorRecv ==
    /\ ix_col_pc = "run"
    /\ ix_err_ch # <<>>
    /\ ix_errors' = Append(ix_errors, Head(ix_err_ch))
    /\ ix_err_ch' = Tail(ix_err_ch)
    /\ UNCHANGED <<ix_err_left, ix_col_pc, ix_err_sent>>
    /\ UNCHANGED <<idxVars, scanVars, buildVars, s2Vars,
                   tokVars, walkVars, sentVars, mainVars>>

LookupCollectorDone ==
    /\ ix_col_pc = "run"
    /\ lookup_collector_ends(ix_err_ch, walker_done)
    /\ ix_col_pc' = "done"
    /\ UNCHANGED <<ix_err_left, ix_err_ch, ix_errors, ix_err_sent>>
    /\ UNCHANGED <<idxVars, scanVars, buildVars, s2Vars,
                   tokVars, walkVars, sentVars, mainVars>>

\* run_lookup_stage joins the walker, every worker and the error collector,
\* then returns.
MainReturn ==
    /\ main_pc = "joining"
    /\ walker_done
    /\ \A w \in Workers : wpc[w] = "done"
    /\ ix_col_pc = "done"
    /\ main_pc' = "returned"
    /\ UNCHANGED <<fs, to_walk, entry_ch, walker_done, wpc, held,
                   file_index, emitted, applied, lookup>>
    /\ UNCHANGED <<scanVars, buildVars, s2Vars,
                   tokVars, walkVars, lerrVars, sentVars, mainVars>>

(***************************************************************************)
(* A read of the completed index, as resolve_source_path makes it          *)
(* (command_builder.rs 119-121): file_index.get(name).and_then(parent).    *)
(***************************************************************************)
index_lookup(tree, name) ==
    IF name \in DOMAIN tree THEN parent(tree[name]) ELSE None

N_m == <<"m", ".", "c">>
N_u == <<"u", ".", "c">>
N_z == <<"z", ".", "c">>

LookupNames == {N_m, N_u, N_z}

ResolverLookup ==
    /\ main_pc = "returned"
    /\ \E n \in LookupNames :
         lookup' = [name |-> n, result |-> index_lookup(file_index, n)]
    /\ UNCHANGED <<fs, to_walk, entry_ch, walker_done, wpc, held,
                   file_index, emitted, applied, main_pc>>
    /\ UNCHANGED <<scanVars, buildVars, s2Vars,
                   tokVars, walkVars, lerrVars, sentVars, mainVars>>

NextIndex ==
    \/ WalkerSend
    \/ WalkerSendError
    \/ WalkerFinish
    \/ LookupCollectorRecv
    \/ LookupCollectorDone
    \/ \E w \in Workers : WorkerRecv(w)
    \/ \E w \in Workers : WorkerInsert(w)
    \/ \E w \in Workers : WorkerDisconnected(w)
    \/ \E w \in Workers : WorkerTimeout(w)
    \/ MainReturn
    \/ ResolverLookup

SpecIndex == InitIndex /\ [][NextIndex]_vars

(***************************************************************************)
(* Stage 1: properties.                                                    *)
(***************************************************************************)
Range(s) == {s[i] : i \in 1..Len(s)}

CountIn(s, x) == Cardinality({i \in 1..Len(s) : s[i] = x})

SameBag(a, b) ==
    /\ Len(a) = Len(b)
    /\ \A x \in Range(a) \cup Range(b) : CountIn(a, x) = CountIn(b, x)

\* The map key and the recorded parent that build_file_map derives from p.
KeyOf(p) == normalize_component(path_file_name(p).value).value
ParentOf(p) == normalize_component(path_parent(p).value).value

\* The parents under which name n has been applied to the index so far.
ParentsApplied(n) == {ParentOf(p) : p \in {q \in Range(applied) : KeyOf(q) = n}}

\* The index the specification describes for a set of paths: a name with one
\* parent is Unique(parent), a name with several parents is Ambiguous.
IndexOfSet(S) ==
    [n \in {KeyOf(p) : p \in S} |->
        LET ps == {ParentOf(p) : p \in {q \in S : KeyOf(q) = n}}
        IN  IF Cardinality(ps) = 1
            THEN unique(CHOOSE d \in ps : TRUE)
            ELSE Ambiguous]

\* C1 (as claimed): for the path a worker applies, an absent name gets
\* Unique(parent), an entry with a different parent becomes Ambiguous, and a
\* Unique entry whose parent equals the path's parent is left unchanged.
C1_InsertRespectsParent ==
    [][\A w \in Workers :
        (wpc[w] = "insert" /\ wpc'[w] = "recv") =>
            LET n == KeyOf(held[w])
                d == ParentOf(held[w])
            IN  /\ n \notin DOMAIN file_index => file_index'[n] = unique(d)
                /\ (n \in DOMAIN file_index /\ file_index[n] # unique(d))
                      => file_index'[n] = Ambiguous
                /\ (n \in DOMAIN file_index /\ file_index[n] = unique(d))
                      => file_index'[n] = unique(d)]_vars

\* C2 (as claimed): when stage 1 has returned, the index is the one determined
\* by the set of emitted paths alone, whatever the distribution over workers
\* and the interleaving; in particular a name emitted under two parents is
\* Ambiguous.
C2_IndexDependsOnlyOnEmittedSet ==
    main_pc = "returned" => file_index = IndexOfSet(Range(emitted))

\* C3: in every step of stage 1 the key set of the index only grows and an
\* Ambiguous entry stays Ambiguous.
C3_MonotonicDegradation ==
    [][/\ DOMAIN file_index \subseteq DOMAIN file_index'
       /\ \A n \in DOMAIN file_index :
            file_index[n] = Ambiguous => file_index'[n] = Ambiguous]_vars

\* C3 witness: an Ambiguous entry has received a further sighting.
C3_Witness ==
    \E n \in DOMAIN file_index :
        /\ file_index[n] = Ambiguous
        /\ Cardinality({i \in 1..Len(applied) : KeyOf(applied[i]) = n}) >= 3

\* C4: a lookup yields a directory only for a Unique entry, and then the
\* recorded parent; an absent or Ambiguous name yields none; once a name has
\* been inserted under two different parents its lookup yields none.
C4_LookupOnlyUnique ==
    lookup.result.kind # "NotAsked" =>
        LET n == lookup.name
            r == lookup.result
        IN  /\ r.kind = "Some" =>
                 /\ n \in DOMAIN file_index
                 /\ file_index[n] = unique(r.value)
                 /\ r.value \in ParentsApplied(n)
            /\ n \notin DOMAIN file_index => r = None
            /\ (n \in DOMAIN file_index /\ file_index[n] = Ambiguous)
                 => r = None
            /\ Cardinality(ParentsApplied(n)) >= 2 => r = None

\* C4 witness: a name inserted under two different parents has been looked up.
C4_Witness ==
    /\ lookup.result = None
    /\ Cardinality(ParentsApplied(lookup.name)) >= 2

\* C5 (as claimed): a worker ends only when the channel is closed and empty,
\* and when build_lookup_tree returns every emitted path has been received
\* and applied to the index.
C5_EveryEmittedPathApplied ==
    /\ \A w \in Workers :
         wpc[w] = "done" => (walker_done /\ entry_ch = <<>>)
    /\ main_pc = "returned" =>
         (entry_ch = <<>> /\ SameBag(applied, emitted))

(***************************************************************************)
(* The log scanner: log_scan.rs LogLineIter, and the helpers of lib.rs     *)
(* parser it calls.                                                        *)
(***************************************************************************)
WhiteSpace == {" ", "\t", "\n", "\r"}
QuoteChars == {"\"", "'"}

\* str::trim_end_matches(set): drops every trailing character of the set.
RECURSIVE trim_end_matches(_, _)
trim_end_matches(s, set) ==
    IF s # <<>> /\ s[Len(s)] \in set
    THEN trim_end_matches(SubSeq(s, 1, Len(s) - 1), set)
    ELSE s

RECURSIVE trim_start_matches(_, _)
trim_start_matches(s, set) ==
    IF s # <<>> /\ s[1] \in set
    THEN trim_start_matches(Tail(s), set)
    ELSE s

trim_matches(s, set) == trim_end_matches(trim_start_matches(s, set), set)

\* str::contains(sub)
contains(s, sub) ==
    \E i \in 1..(Len(s) - Len(sub) + 1) : SubSeq(s, i, i + Len(sub) - 1) = sub

\* lib.rs ends_with_ignore_ascii_case: the tail of value as long as suffix
\* (the whole value when it is shorter) compared ignoring case.
ends_with_ignore_ascii_case(value, suffix) ==
    LET from == IF Len(value) >= Len(suffix)
                THEN Len(value) - Len(suffix) + 1 ELSE 1
        tail == SubSeq(value, from, Len(value))
    IN  to_lowercase(tail) = to_lowercase(suffix)

\* lib.rs ends_with_cpp_source_file
ends_with_cpp_source_file(line, exts) ==
    LET l1 == trim_end_matches(line, WhiteSpace)
        l2 == trim_end_matches(l1, QuoteChars)
    IN  \E i \in 1..Len(exts) : ends_with_ignore_ascii_case(l2, exts[i])

\* log_scan.rs first_executable_name: the name that ends at the first ".exe"
\* of the line.
DotExe == <<".", "e", "x", "e">>
NameStartChars == {"\\", "/", " ", "\t", "\"", "'", "("}

first_executable_name(line) ==
    LET hits == {i \in 1..(Len(line) - 3) : SubSeq(line, i, i + 3) = DotExe}
    IN  IF hits = {} THEN None
        ELSE LET idx == SetMin(hits)
                 prefix == SubSeq(line, 1, idx + 3)
                 seps == {j \in 1..Len(prefix) : prefix[j] \in NameStartChars}
                 start == IF seps = {} THEN 1 ELSE SetMax(seps) + 1
             IN  Some(trim_matches(SubSeq(prefix, start, Len(prefix)),
                                   QuoteChars))

\* config.rs DEFAULT_COMPILER_EXECUTABLE
compiler_executable == <<"c", "l", ".", "e", "x", "e">>

\* LogLineIter::new
compiler_exe_lower == to_lowercase(compiler_executable)

log_path == <<"l", "o", "g">>

OkItem(command) == [kind |-> "Ok", command |-> command]
UnexpectedLine(line, current) ==
    [kind |-> "UnexpectedLine", line |-> line, current |-> current]
LogRead(path) == [kind |-> "LogRead", path |-> path]

\* The Idle test of LogLineIter::next (lines 76-83).
idle_is_compiler_line(line) ==
    first_executable_name(to_lowercase(line)) = Some(compiler_exe_lower)

\* The Accumulating test of LogLineIter::next (line 64).
accumulating_sees_compiler(line) ==
    contains(to_lowercase(line), compiler_exe_lower)

\* Variant: Idle never tests the line for completeness.
next_line_idle_always_accumulates(pending, line, exts) ==
    IF pending # None
    THEN LET command == pending.value \o <<" ">> \o line
         IN  IF ends_with_cpp_source_file(line, exts)
             THEN [pending |-> None, item |-> Some(OkItem(command))]
             ELSE IF accumulating_sees_compiler(line)
             THEN [pending |-> None,
                   item |-> Some(UnexpectedLine(line, command))]
             ELSE [pending |-> Some(command), item |-> None]
    ELSE IF ~idle_is_compiler_line(line)
         THEN [pending |-> None, item |-> None]
         ELSE [pending |-> Some(line), item |-> None]

\* Variant: Accumulating tests for the compiler name before the extension.
next_line_compiler_test_first(pending, line, exts) ==
    IF pending # None
    THEN LET command == pending.value \o <<" ">> \o line
         IN  IF accumulating_sees_compiler(line)
             THEN [pending |-> None,
                   item |-> Some(UnexpectedLine(line, command))]
             ELSE IF ends_with_cpp_source_file(line, exts)
             THEN [pending |-> None, item |-> Some(OkItem(command))]
             ELSE [pending |-> Some(command), item |-> None]
    ELSE IF ~idle_is_compiler_line(line)
         THEN [pending |-> None, item |-> None]
         ELSE IF ends_with_cpp_source_file(line, exts)
         THEN [pending |-> None, item |-> Some(OkItem(line))]
         ELSE [pending |-> Some(line), item |-> None]

\* Variant: the unexpected compiler line becomes the new pending command.
next_line_restarts_on_unexpected(pending, line, exts) ==
    IF pending # None
    THEN LET command == pending.value \o <<" ">> \o line
         IN  IF ends_with_cpp_source_file(line, exts)
             THEN [pending |-> None, item |-> Some(OkItem(command))]
             ELSE IF accumulating_sees_compiler(line)
             THEN [pending |-> Some(line),
                   item |-> Some(UnexpectedLine(line, command))]
             ELSE [pending |-> Some(command), item |-> None]
    ELSE IF ~idle_is_compiler_line(line)
         THEN [pending |-> None, item |-> None]
         ELSE IF ends_with_cpp_source_file(line, exts)
         THEN [pending |-> None, item |-> Some(OkItem(line))]
         ELSE [pending |-> Some(line), item |-> None]

\* Variant: in Accumulating the completion is decided on the whole buffer
\* after the append.
next_line_whole_buffer(pending, line, exts) ==
    IF pending # None
    THEN LET command == pending.value \o <<" ">> \o line
         IN  IF ends_with_cpp_source_file(command, exts)
             THEN [pending |-> None, item |-> Some(OkItem(command))]
             ELSE IF accumulating_sees_compiler(line)
             THEN [pending |-> None,
                   item |-> Some(UnexpectedLine(line, command))]
             ELSE [pending |-> Some(command), item |-> None]
    ELSE IF ~idle_is_compiler_line(line)
         THEN [pending |-> None, item |-> None]
         ELSE IF ends_with_cpp_source_file(line, exts)
         THEN [pending |-> None, item |-> Some(OkItem(line))]
         ELSE [pending |-> Some(line), item |-> None]

\* One iteration of the loop of LogLineIter::next on a line that was read:
\* the new pending_command and the item returned, if any (None: `continue`).
next_line(pending, line, exts) ==
    IF pending # None
    THEN LET command == pending.value \o <<" ">> \o line
         IN  IF ends_with_cpp_source_file(line, exts)
             THEN [pending |-> None, item |-> Some(OkItem(command))]
             ELSE IF accumulating_sees_compiler(line)
             THEN [pending |-> None,
                   item |-> Some(UnexpectedLine(line, command))]
             ELSE [pending |-> Some(command), item |-> None]
    ELSE IF ~idle_is_compiler_line(line)
         THEN [pending |-> None, item |-> None]
         ELSE IF ends_with_cpp_source_file(line, exts)
         THEN [pending |-> None, item |-> Some(OkItem(line))]
         ELSE [pending |-> Some(line), item |-> None]

(***************************************************************************)
(* The log lines the reader may deliver, and the configurations.           *)
(***************************************************************************)
S_cl   == <<"c", "l", ".", "e", "x", "e">>
S_c    == <<"/", "c">>
S_mcpp == <<"m", ".", "c", "p", "p">>
S_zi   == <<"/", "Z", "i">>
SP     == <<" ">>

L_single   == S_cl \o SP \o S_c \o SP \o S_mcpp
L_start    == S_cl \o SP \o S_c
L_file     == S_mcpp
L_flag     == S_zi
L_quoted   == <<"\"">> \o S_mcpp \o <<"\"", " ">>
L_other    == <<"l", "i", "b", ".", "e", "x", "e">> \o SP \o S_cl \o SP \o S_mcpp
L_upper    == <<"\"", "/", "x", "/", "C", "L", ".", "E", "X", "E", "\"">>
                 \o SP \o S_zi
L_longer   == <<"x">> \o S_cl \o SP \o S_zi

LogLines == {L_single, L_start, L_file, L_flag, L_quoted, L_other, L_upper,
             L_longer}

Terminators == {<<"\n">>, <<"\r", "\n">>, <<>>}

E_cpp == <<"c", "p", "p">>
E_c   == <<"c">>

ExtensionLists == {<<E_cpp>>, <<E_c, E_cpp>>}

MaxLogLen == 3
MaxReadErrors == 1

\* Stage 1 takes no part in the scanner's and the builder's runs.
IndexIdle ==
    /\ fs = {}
    /\ to_walk = {}
    /\ entry_ch = <<>>
    /\ walker_done = TRUE
    /\ wpc = [w \in Workers |-> "done"]
    /\ held = [w \in Workers |-> <<>>]
    /\ file_index = EmptyIndex
    /\ emitted = <<>>
    /\ applied = <<>>
    /\ main_pc = "returned"
    /\ lookup = NoLookup
    /\ ix_err_left = 0
    /\ ix_err_ch = <<>>
    /\ ix_col_pc = "done"
    /\ ix_errors = <<>>
    /\ ix_err_sent = <<>>

InitScan ==
    /\ file_extensions \in ExtensionLists
    /\ pending_command = None
    /\ scan_out = <<>>
    /\ scan_done = FALSE
    /\ lines_read = <<>>
    /\ acc_lines = <<>>
    /\ read_errors = 0
    /\ IndexIdle
    /\ BuildIdle
    /\ Stage2Idle
    /\ TokIdle
    /\ WalkIdle
    /\ MainIdle

\* read_line returned Ok(n), n > 0: one pass of the loop on that line.
ReadLineOf(contents, terminators) ==
    /\ ~scan_done
    /\ \E content \in contents, term \in terminators :
         LET raw  == content \o term
             line == trim_end_matches(raw, {"\r", "\n"})
             r    == next_line(pending_command, line, file_extensions)
         IN  /\ pending_command' = r.pending
             /\ scan_out' = IF r.item = None THEN scan_out
                            ELSE Append(scan_out, r.item.value)
             /\ lines_read' = Append(lines_read, line)
             /\ acc_lines' = IF r.pending = None THEN <<>>
                             ELSE Append(acc_lines, line)
    /\ UNCHANGED <<file_extensions, scan_done, read_errors>>
    /\ UNCHANGED <<idxVars, buildVars, s2Vars,
                   tokVars, walkVars, lerrVars, sentVars, mainVars>>

\* Variant: a read failure discards the partial command.
pending_after_read_error_reset(pending) == None

\* The Err arm of the match (lines 96-101) does not touch pending_command.
pending_after_read_error(pending) == pending

\* Variant: the end of the log emits the partial command.
items_at_eof_flush(pending) ==
    IF pending = None THEN <<>> ELSE <<OkItem(pending.value)>>

\* `Ok(0) => return None` (line 44): nothing is emitted at the end of the log.
items_at_eof(pending) == <<>>

\* read_line returned Err: next() returns the LogRead error, state untouched.
ReadError ==
    /\ ~scan_done
    /\ read_errors < MaxReadErrors
    /\ scan_out' = Append(scan_out, LogRead(log_path))
    /\ read_errors' = read_errors + 1
    /\ pending_command' = pending_after_read_error(pending_command)
    /\ UNCHANGED <<file_extensions, scan_done, lines_read, acc_lines>>
    /\ UNCHANGED <<idxVars, buildVars, s2Vars,
                   tokVars, walkVars, lerrVars, sentVars, mainVars>>

\* read_line returned Ok(0): next() returns None.
ReadEof ==
    /\ ~scan_done
    /\ scan_done' = TRUE
    /\ scan_out' = scan_out \o items_at_eof(pending_command)
    /\ UNCHANGED <<file_extensions, pending_command, lines_read,
                   acc_lines, read_errors>>
    /\ UNCHANGED <<idxVars, buildVars, s2Vars,
                   tokVars, walkVars, lerrVars, sentVars, mainVars>>

ReadLine ==
    /\ Len(lines_read) < MaxLogLen
    /\ ReadLineOf(LogLines, Terminators)

NextScan == ReadLine \/ ReadError \/ ReadEof

SpecScan == InitScan /\ [][NextScan]_vars

(***************************************************************************)
(* The scanner on logs whose lines end in quotes, white space and short    *)
(* words: the lines on which a test of the new line and a test of the      *)
(* whole buffer could part.                                                *)
(***************************************************************************)
MaxTailLen == 3

L_tail_quote == S_cl \o SP \o <<"\"">> \o S_mcpp \o <<"\"", " ", "\"">>
L_empty      == <<>>
L_blank      == <<" ">>
L_quote      == <<"\"">>
L_pp         == <<"p", "p">>
L_c          == <<"c">>

TailLines == {L_start, L_tail_quote, L_empty, L_blank, L_quote, L_pp, L_c,
              L_file, L_single}

InitScanTail == InitScan

ReadTailLine ==
    /\ Len(lines_read) < MaxTailLen
    /\ ReadLineOf(TailLines, {<<"\n">>})

NextScanTail == ReadTailLine \/ ReadError \/ ReadEof

SpecScanTail == InitScanTail /\ [][NextScanTail]_vars

(***************************************************************************)
(* The log scanner: properties.                                            *)
(***************************************************************************)
RECURSIVE JoinSp(_)
JoinSp(ls) ==
    IF ls = <<>> THEN <<>>
    ELSE IF Len(ls) = 1 THEN ls[1]
    ELSE JoinSp(SubSeq(ls, 1, Len(ls) - 1)) \o <<" ">> \o Last(ls)

\* This step read one line (the last element of lines_read').
LineStep == Len(lines_read') = Len(lines_read) + 1

\* The compiler's name stands in the line as a whole token: bounded on the
\* left by the start of the line or a separator, on the right by the end of
\* the line, white space, a quote or a parenthesis.
TokenEndChars == WhiteSpace \cup QuoteChars \cup {")"}

ContainsWholeToken(line) ==
    LET l == to_lowercase(line)
        n == Len(compiler_exe_lower)
    IN  \E i \in 1..(Len(l) - n + 1) :
            /\ SubSeq(l, i, i + n - 1) = compiler_exe_lower
            /\ (i = 1 \/ l[i - 1] \in NameStartChars)
            /\ (i + n - 1 = Len(l) \/ l[i + n] \in TokenEndChars)

\* C6: in Idle, a line the scanner recognises as a compiler line is emitted
\* as it stands, the state staying Idle, when it ends with a configured
\* extension, and otherwise becomes the initial buffer of Accumulating with
\* nothing emitted; any other line is ignored and leaves the state unchanged.
C6_IdleStep ==
    [][(pending_command = None /\ LineStep) =>
        LET line == Last(lines_read')
        IN  IF idle_is_compiler_line(line)
            THEN IF ends_with_cpp_source_file(line, file_extensions)
                 THEN /\ scan_out' = Append(scan_out, OkItem(line))
                      /\ pending_command' = None
                 ELSE /\ scan_out' = scan_out
                      /\ pending_command' = Some(line)
            ELSE /\ scan_out' = scan_out
                 /\ pending_command' = None]_vars

\* C6 witness: a complete compiler line was emitted from Idle and the next,
\* incomplete one started an accumulation.
C6_Witness ==
    /\ scan_out = <<OkItem(L_single)>>
    /\ lines_read = <<L_single, L_start>>
    /\ pending_command = Some(L_start)

\* C7: in Accumulating the buffer grows by a space and the new line; a line
\* ending with a configured extension (with or without the compiler's name in
\* it) emits the buffer, which is the lines read since the starting compiler
\* line joined by single spaces, and returns to Idle; a line without extension
\* and without the compiler's name keeps Accumulating.
C7_AccumulatingStep ==
    [][(pending_command # None /\ LineStep) =>
        LET line == Last(lines_read')
            buf  == pending_command.value \o <<" ">> \o line
        IN  /\ ends_with_cpp_source_file(line, file_extensions) =>
                 /\ scan_out' = Append(scan_out, OkItem(buf))
                 /\ buf = JoinSp(Append(acc_lines, line))
                 /\ pending_command' = None
            /\ (/\ ~ends_with_cpp_source_file(line, file_extensions)
                /\ ~accumulating_sees_compiler(line)) =>
                 /\ scan_out' = scan_out
                 /\ pending_command' = Some(buf)
                 /\ buf = JoinSp(acc_lines')]_vars

\* C7 witness: three lines were merged, the last one naming the compiler.
C7_Witness ==
    /\ Len(lines_read) = 3
    /\ scan_out # <<>>
    /\ Last(scan_out) = OkItem(JoinSp(lines_read))
    /\ accumulating_sees_compiler(lines_read[3])
    /\ pending_command = None

\* C8: in Accumulating, a line without extension that holds the compiler's
\* name yields exactly one UnexpectedLine error for that line, the buffer is
\* discarded, the state is Idle with no pending command and the scan goes on.
C8_UnexpectedLineRecovers ==
    [][(pending_command # None /\ LineStep) =>
        LET line == Last(lines_read')
        IN  (/\ ~ends_with_cpp_source_file(line, file_extensions)
             /\ accumulating_sees_compiler(line)) =>
                /\ Len(scan_out') = Len(scan_out) + 1
                /\ SubSeq(scan_out', 1, Len(scan_out)) = scan_out
                /\ Last(scan_out').kind = "UnexpectedLine"
                /\ Last(scan_out').line = line
                /\ pending_command' = None
                /\ scan_done' = FALSE]_vars

\* C8 witness: after an UnexpectedLine error a later command was emitted.
C8_Witness ==
    \E i, j \in 1..Len(scan_out) :
        /\ i < j
        /\ scan_out[i].kind = "UnexpectedLine"
        /\ scan_out[j].kind = "Ok"

\* C9 (as claimed): Idle recognises a line exactly when it holds the
\* compiler's name as a whole token, at any position, ignoring case; and
\* Accumulating reports a line without extension as unexpected exactly when
\* it holds the name as a whole token.
C9_WholeTokenAnywhere ==
    [][LineStep =>
        LET line == Last(lines_read')
        IN  /\ pending_command = None =>
                 ((pending_command' # None \/ scan_out' # scan_out)
                     <=> ContainsWholeToken(line))
            /\ (/\ pending_command # None
                /\ ~ends_with_cpp_source_file(line, file_extensions)) =>
                 ((scan_out' # scan_out) <=> ContainsWholeToken(line))]_vars

\* The last token of a line: what follows its last white space, trailing
\* white space and quotes set aside.
LastToken(line) ==
    LET l  == trim_end_matches(trim_end_matches(line, WhiteSpace), QuoteChars)
        ws == {i \in 1..Len(l) : l[i] \in WhiteSpace}
    IN  IF ws = {} THEN l ELSE SubSeq(l, SetMax(ws) + 1, Len(l))

\* The last token is a file name whose extension, the text after its final
\* dot, is one of the configured extensions (ignoring case).
EndsInSourceFileName(line, exts) ==
    LET t    == LastToken(line)
        dots == Positions(t, ".")
    IN  /\ dots # {}
        /\ SetMax(dots) > 1
        /\ \E i \in 1..Len(exts) :
             to_lowercase(SubSeq(t, SetMax(dots) + 1, Len(t)))
                = to_lowercase(exts[i])

\* C33 (as claimed): a compiler line read in Idle is emitted as complete
\* exactly when its last token is a file name with a configured extension;
\* a compiler line ending in a flag starts an accumulation, whatever the
\* configured extensions.
C33_CompleteOnlyOnSourceFile ==
    [][(/\ pending_command = None
        /\ LineStep
        /\ idle_is_compiler_line(Last(lines_read'))) =>
        LET line == Last(lines_read')
        IN  IF EndsInSourceFileName(line, file_extensions)
            THEN scan_out' = Append(scan_out, OkItem(line))
            ELSE /\ scan_out' = scan_out
                 /\ pending_command' = Some(line)]_vars

\* The same where no configured extension is the tail of a flag.
CompleteOnlyOnSourceFileForCpp ==
    [][(/\ pending_command = None
        /\ LineStep
        /\ file_extensions = <<E_cpp>>
        /\ idle_is_compiler_line(Last(lines_read'))) =>
        LET line == Last(lines_read')
        IN  IF EndsInSourceFileName(line, file_extensions)
            THEN scan_out' = Append(scan_out, OkItem(line))
            ELSE /\ scan_out' = scan_out
                 /\ pending_command' = Some(line)]_vars

\* This step appended an UnexpectedLine error to the output.
UnexpectedLineStep ==
    /\ LineStep
    /\ Len(scan_out') = Len(scan_out) + 1
    /\ Last(scan_out').kind = "UnexpectedLine"

\* C34 (as claimed): an UnexpectedLine error carries the offending line in
\* `line` and in `current` the buffer as it was before that line was read.
C34_CurrentIsPartialCommand ==
    [][UnexpectedLineStep =>
        /\ Last(scan_out').line = Last(lines_read')
        /\ Last(scan_out').current = pending_command.value]_vars

\* What the error does carry: the buffer with a space and the offending
\* line appended.
CurrentIncludesOffendingLine ==
    [][UnexpectedLineStep =>
        /\ Last(scan_out').line = Last(lines_read')
        /\ Last(scan_out').current =
             pending_command.value \o <<" ">> \o Last(lines_read')]_vars

\* What a step of the scanner did to the state and the output.
StepTaken ==
    [pending |-> pending_command',
     item |-> IF scan_out' = scan_out THEN None ELSE Some(Last(scan_out'))]

\* C35: in Accumulating the test of the new line alone and the test of the
\* whole buffer after the append give the same verdict at every buffer the
\* scanner reaches, and the scanner that tests the whole buffer takes the
\* same step: from the same start the two emit the same commands and errors.
C35_NewLineAloneIsWholeBuffer ==
    [][LineStep =>
        LET line == Last(lines_read')
        IN  /\ pending_command # None =>
                 (ends_with_cpp_source_file(line, file_extensions)
                    <=> ends_with_cpp_source_file(
                            pending_command.value \o <<" ">> \o line,
                            file_extensions))
            /\ StepTaken = next_line_whole_buffer(pending_command, line,
                                                  file_extensions)]_vars

\* C35 witness: a buffer that ends in a quote took an empty line, on which
\* the test of the whole buffer looks at the old buffer again, and was then
\* completed by a line that names a source file.
C35_Witness ==
    /\ lines_read = <<L_tail_quote, L_empty, L_file>>
    /\ scan_out = <<OkItem(JoinSp(lines_read))>>

\* C37: the step on which the log ends emits nothing, whether or not a
\* partial command is pending: the commands and errors of a finished scan
\* are those emitted while lines were read.
C37_PendingDroppedAtEof ==
    [][(~scan_done /\ scan_done') => scan_out' = scan_out]_vars

\* C37 witness: the log was one compiler line that started an accumulation;
\* the scan is over and nothing was emitted.
C37_Witness ==
    /\ scan_done
    /\ lines_read = <<L_start>>
    /\ pending_command = Some(L_start)
    /\ scan_out = <<>>

\* This step was a failed read.
ReadFailureStep == read_errors' = read_errors + 1

\* C38: a failed read appends one LogRead error with the log's path and
\* changes nothing else: the partial command and the lines it was built of
\* stay, so the lines read afterwards are appended to it.
C38_ReadFailureKeepsState ==
    [][ReadFailureStep =>
        /\ scan_out' = Append(scan_out, LogRead(log_path))
        /\ pending_command' = pending_command
        /\ acc_lines' = acc_lines
        /\ lines_read' = lines_read
        /\ scan_done' = scan_done]_vars

\* C38 witness: a read failed between the two lines of a command, which
\* was emitted whole after the error.
C38_Witness ==
    /\ lines_read = <<L_start, L_file>>
    /\ file_extensions = <<E_cpp>>
    /\ scan_out = <<LogRead(log_path), OkItem(L_start \o SP \o L_file)>>

(***************************************************************************)
(* The command builder: command_builder.rs assemble and                    *)
(* resolve_source_path, with the helpers of lib.rs they call.              *)
(***************************************************************************)
Err(error) == [kind |-> "Err", error |-> error]

\* lib.rs parser::extract_and_validate_filename
extract_and_validate_filename(arg_path) ==
    IF path_file_name(arg_path) = None
    THEN [kind |-> "Err", error |-> "MissingFileName", path |-> arg_path]
    ELSE IF path_extension(arg_path) = None
    THEN [kind |-> "Err", error |-> "MissingExtension", path |-> arg_path]
    ELSE [kind |-> "Ok", value |-> path_file_name(arg_path).value]

\* command_builder.rs is_source_file_argument
is_source_file_argument(arg) ==
    extract_and_validate_filename(path_from(arg)).kind = "Ok"

FoPrefix == <<"/", "F", "o">>

starts_with(s, prefix) ==
    Len(s) >= Len(prefix) /\ SubSeq(s, 1, Len(prefix)) = prefix

\* Variant: any switch (a token starting with "/") passes for the /Fo one.
find_fo_argument_any_switch(arguments) ==
    LET hits == {i \in 1..Len(arguments) : starts_with(arguments[i], <<"/">>)}
    IN  IF hits = {} THEN None ELSE Some(arguments[SetMin(hits)])

\* lib.rs compile_commands::find_fo_argument: the first such token.
find_fo_argument(arguments) ==
    LET hits == {i \in 1..Len(arguments) : starts_with(arguments[i], FoPrefix)}
    IN  IF hits = {} THEN None ELSE Some(arguments[SetMin(hits)])

\* lib.rs compile_commands::extract_fo_path
extract_fo_path(fo_argument) ==
    IF starts_with(fo_argument, FoPrefix)
    THEN [kind |-> "Ok",
          value |-> path_from(SubSeq(fo_argument, Len(FoPrefix) + 1,
                                     Len(fo_argument)))]
    ELSE [kind |-> "Err", error |-> "InvalidFoArgument",
          argument |-> fo_argument]

\* The regular files on disk during stage 2 (Path::is_file).  The working
\* directory holds none, and the resolver only ever asks about rooted paths.
DiskFiles == {<<"/", "s", "/", "a", ".", "c">>,
              <<"/", "o", "/", "b", ".", "c">>,
              <<"/", "o", "/", "d", "/", "e", ".", "c">>}

\* Variant: every absolute path passes for an existing file.
path_is_file_any_absolute(p) == path_is_absolute(p)

path_is_file(p) == path_is_absolute(p) /\ p \in DiskFiles

\* Variant: the loop tests the starting directory and never pops.
fo_walk_single_level(fo_path, file_name, arg_path_buf) ==
    IF ~has_root(fo_path) THEN [path |-> <<>>, fo_path |-> fo_path]
    ELSE LET test1 == path_push(fo_path, file_name)
             test2 == path_push(path_pop(test1).path, arg_path_buf)
         IN  IF path_is_file(test1) THEN [path |-> test1, fo_path |-> fo_path]
             ELSE IF path_is_file(test2)
             THEN [path |-> test2, fo_path |-> fo_path]
             ELSE [path |-> <<>>, fo_path |-> fo_path]

\* The `while fo_path.has_root()` loop of resolve_source_path: the candidate
\* found ("" when none) and the fo_path the loop ends with.
RECURSIVE fo_walk(_, _, _)
fo_walk(fo_path, file_name, arg_path_buf) ==
    IF ~has_root(fo_path) THEN [path |-> <<>>, fo_path |-> fo_path]
    ELSE LET test1 == path_push(fo_path, file_name)
             test2 == path_push(path_pop(test1).path, arg_path_buf)
         IN  IF path_is_file(test1) THEN [path |-> test1, fo_path |-> fo_path]
             ELSE IF path_is_file(test2)
             THEN [path |-> test2, fo_path |-> fo_path]
             ELSE IF ~path_pop(fo_path).ok
             THEN [path |-> <<>>, fo_path |-> fo_path]
             ELSE fo_walk(path_pop(fo_path).path, file_name, arg_path_buf)

\* The paths that loop tests with is_file, in order (history for b_trace).
RECURSIVE fo_probes(_, _, _)
fo_probes(fo_path, file_name, arg_path_buf) ==
    IF ~has_root(fo_path) THEN <<>>
    ELSE LET test1 == path_push(fo_path, file_name)
             test2 == path_push(path_pop(test1).path, arg_path_buf)
         IN  IF path_is_file(test1) THEN <<test1>>
             ELSE IF path_is_file(test2) \/ ~path_pop(fo_path).ok
             THEN <<test1, test2>>
             ELSE <<test1, test2>>
                    \o fo_probes(path_pop(fo_path).path, file_name,
                                 arg_path_buf)

\* Lines 117-128 of resolve_source_path: the candidate before the /Fo
\* fallback ("" when the argument is relative and the index gives no parent).
index_candidate(index, arg_path_buf, file_name) ==
    IF path_is_absolute(arg_path_buf) THEN arg_path_buf
    ELSE IF index_lookup(index, file_name) # None
    THEN path_push(index_lookup(index, file_name).value, file_name)
    ELSE <<>>

NoTrace == [index_get |-> FALSE, find_fo |-> FALSE, probes |-> <<>>]

\* What one call of resolve_source_path consults: whether file_index.get is
\* evaluated (line 119: only when the argument is not absolute), whether
\* find_fo_argument is called (line 131: only when the candidate is not
\* absolute), and the paths the /Fo loop tests.
resolve_trace(index, arguments, file_argument) ==
    LET arg_path_buf == path_from(file_argument)
        validated == extract_and_validate_filename(arg_path_buf)
    IN  IF validated.kind = "Err" THEN NoTrace
        ELSE
        LET file_name == validated.value
            path0 == index_candidate(index, arg_path_buf, file_name)
            fo == find_fo_argument(arguments)
        IN  [index_get |-> ~path_is_absolute(arg_path_buf),
             find_fo |-> ~path_is_absolute(path0),
             probes |->
                IF /\ ~path_is_absolute(path0)
                   /\ fo # None
                   /\ extract_fo_path(fo.value).kind = "Ok"
                THEN fo_probes(extract_fo_path(fo.value).value, file_name,
                               arg_path_buf)
                ELSE <<>>]

\* Variant: the index is asked before the argument is tested for absolute.
resolve_source_path_index_first(index, arguments, file_argument) ==
    LET arg_path_buf == path_from(file_argument)
        validated == extract_and_validate_filename(arg_path_buf)
    IN  IF validated.kind = "Err" THEN validated
        ELSE
        LET file_name == validated.value
            found == index_lookup(index, file_name)
            path0 == IF found # None
                     THEN path_push(found.value, file_name)
                     ELSE IF path_is_absolute(arg_path_buf) THEN arg_path_buf
                     ELSE <<>>
            fo == find_fo_argument(arguments)
        IN  IF ~path_is_absolute(path0) /\ fo = None
            THEN [kind |-> "Err", error |-> "MissingFoArgument",
                  arguments |-> arguments]
            ELSE IF ~path_is_absolute(path0)
                    /\ extract_fo_path(fo.value).kind = "Err"
            THEN extract_fo_path(fo.value)
            ELSE
            LET walked == fo_walk(extract_fo_path(fo.value).value, file_name,
                                  arg_path_buf)
                path == IF path_is_absolute(path0) THEN path0
                        ELSE IF walked.path # <<>> THEN walked.path
                        ELSE IF path0 = <<>> THEN walked.fo_path
                        ELSE path0
            IN  IF ~path_is_absolute(path) \/ ~path_is_file(path)
                THEN [kind |-> "Err", error |-> "UnresolvedSourcePath",
                      file |-> file_name, arguments |-> arguments]
                ELSE [kind |-> "Ok", value |-> path]

\* command_builder.rs resolve_source_path
resolve_source_path(index, arguments, file_argument) ==
    LET arg_path_buf == path_from(file_argument)
        validated == extract_and_validate_filename(arg_path_buf)
    IN  IF validated.kind = "Err" THEN validated
        ELSE
        LET file_name == validated.value
            found == index_lookup(index, file_name)
            path0 == IF path_is_absolute(arg_path_buf) THEN arg_path_buf
                     ELSE IF found # None
                     THEN path_push(found.value, file_name)
                     ELSE <<>>
            fo == find_fo_argument(arguments)
        IN  IF ~path_is_absolute(path0) /\ fo = None
            THEN [kind |-> "Err", error |-> "MissingFoArgument",
                  arguments |-> arguments]
            ELSE IF ~path_is_absolute(path0)
                    /\ extract_fo_path(fo.value).kind = "Err"
            THEN extract_fo_path(fo.value)
            ELSE
            LET walked == fo_walk(extract_fo_path(fo.value).value, file_name,
                                  arg_path_buf)
                path == IF path_is_absolute(path0) THEN path0
                        ELSE IF walked.path # <<>> THEN walked.path
                        ELSE IF path0 = <<>> THEN walked.fo_path
                        ELSE path0
            IN  IF ~path_is_absolute(path) \/ ~path_is_file(path)
                THEN [kind |-> "Err", error |-> "UnresolvedSourcePath",
                      file |-> file_name, arguments |-> arguments]
                ELSE [kind |-> "Ok", value |-> path]

\* Variant: the resolved path replaces the file's argument in the vector.
create_compile_command_resolved_argument(path, arguments) ==
    IF path_parent(path) = None \/ path_parent(path).value = <<>>
    THEN [kind |-> "Err", error |-> "MissingParent", path |-> path]
    ELSE IF path_file_name(path) = None
    THEN [kind |-> "Err", error |-> "MissingFileName", path |-> path]
    ELSE [kind |-> "Ok",
          command |-> [file |-> path_file_name(path).value,
                       directory |-> path_parent(path).value,
                       arguments |->
                          [i \in 1..Len(arguments) |->
                              IF path_file_name(path_from(arguments[i]))
                                   = path_file_name(path)
                              THEN path ELSE arguments[i]]]]

\* lib.rs compile_commands::create_compile_command
create_compile_command(path, arguments) ==
    IF path_parent(path) = None \/ path_parent(path).value = <<>>
    THEN [kind |-> "Err", error |-> "MissingParent", path |-> path]
    ELSE IF path_file_name(path) = None
    THEN [kind |-> "Err", error |-> "MissingFileName", path |-> path]
    ELSE [kind |-> "Ok",
          command |-> [file |-> path_file_name(path).value,
                       directory |-> path_parent(path).value,
                       arguments |-> arguments]]

\* The body of assemble's loop for one trailing argument.
result_for(index, arguments, file_argument) ==
    LET r == resolve_source_path(index, arguments, file_argument)
    IN  IF r.kind = "Ok" THEN create_compile_command(r.value, arguments)
        ELSE r

\* arguments.iter().enumerate().rev().take_while(is_source_file_argument):
\* the indices from position i downwards, last first.
RECURSIVE rev_take_while(_, _)
rev_take_while(arguments, i) ==
    IF i = 0 \/ ~is_source_file_argument(arguments[i]) THEN <<>>
    ELSE <<i>> \o rev_take_while(arguments, i - 1)

reverse(s) == [k \in 1..Len(s) |-> s[Len(s) + 1 - k]]

\* Variant: the collected indices are not put back into argument order.
trailing_indices_not_reversed(arguments) ==
    rev_take_while(arguments, Len(arguments))

\* assemble, lines 73-80.
trailing_indices(arguments) ==
    reverse(rev_take_while(arguments, Len(arguments)))

\* Variant: an empty vector is not told apart from one without a file.
assemble_without_empty_check(index, tokens) ==
    LET arguments == tokens
        ti == trailing_indices(arguments)
    IN  IF ti = <<>>
        THEN <<[kind |-> "Err", error |-> "MissingTrailingFile",
                arguments |-> arguments]>>
        ELSE [k \in 1..Len(ti) |->
                result_for(index, arguments, arguments[ti[k]])]

\* command_builder.rs assemble
assemble(index, tokens) ==
    IF tokens = <<>> THEN <<Err("EmptyTokenVector")>>
    ELSE LET arguments == tokens
             ti == trailing_indices(arguments)
         IN  IF ti = <<>>
             THEN <<[kind |-> "Err", error |-> "MissingTrailingFile",
                     arguments |-> arguments]>>
             ELSE [k \in 1..Len(ti) |->
                     result_for(index, arguments, arguments[ti[k]])]

\* What each pass of assemble's loop consults (none when assemble returns
\* before the loop).
assemble_trace(index, tokens) ==
    IF tokens = <<>> THEN <<>>
    ELSE LET ti == trailing_indices(tokens)
         IN  [k \in 1..Len(ti) |-> resolve_trace(index, tokens, tokens[ti[k]])]

(***************************************************************************)
(* The token vectors and the indexes handed to the builder.                *)
(***************************************************************************)
T_cl  == <<"c", "l", ".", "e", "x", "e">>
T_c   == <<"/", "c">>
T_a   == <<"a", ".", "c">>
T_b   == <<"b", ".", "c">>
T_abs == <<"/", "s", "/", "a", ".", "c">>
T_fo  == <<"/", "F", "o", "/", "o", "/", "x", "/">>
T_fo_rel == <<"/", "F", "o", "o", "/">>
T_sub == <<"d", "/", "e", ".", "c">>
\* a.c as a log may spell it.
T_A   == <<"A", ".", "c">>

Tokens == {T_cl, T_c, T_a, T_b, T_abs, T_fo, T_fo_rel, T_sub, T_A}

MaxTokens == 3

TokenVectors == UNION {[1..n -> Tokens] : n \in 0..MaxTokens}

Index_a_unique == insert_path(EmptyIndex, T_abs)
Index_a_ambiguous ==
    insert_path(Index_a_unique, <<"/", "t", "/", "a", ".", "c">>)

\* Entries whose directory holds no such file.
Index_stale ==
    insert_path(insert_path(EmptyIndex, <<"/", "t", "/", "a", ".", "c">>),
                <<"/", "s", "/", "b", ".", "c">>)
\* The source directory was given as a relative path (cli.rs passes it on as
\* it stands), so the recorded parent is relative.
Index_relative == insert_path(EmptyIndex, <<"r", "/", "b", ".", "c">>)

BuilderIndexes == {EmptyIndex, Index_a_unique, Index_a_ambiguous, Index_stale,
                   Index_relative}

InitBuild ==
    /\ b_index \in BuilderIndexes
    /\ b_tokens = <<>>
    /\ b_results = <<>>
    /\ b_trace = <<>>
    /\ IndexIdle
    /\ ScanIdle
    /\ Stage2Idle
    /\ TokIdle
    /\ WalkIdle
    /\ MainIdle

\* CommandBuilder::build on one token vector.  The call is a pure function of
\* the index and the tokens, so one call per behaviour covers every call.
Build ==
    /\ b_results = <<>>
    /\ \E tokens \in TokenVectors :
         /\ b_tokens' = tokens
         /\ b_results' = assemble(b_index, tokens)
         /\ b_trace' = assemble_trace(b_index, tokens)
    /\ UNCHANGED b_index
    /\ UNCHANGED <<idxVars, scanVars, s2Vars,
                   tokVars, walkVars, lerrVars, sentVars, mainVars>>

NextBuild == Build

SpecBuild == InitBuild /\ [][NextBuild]_vars

(***************************************************************************)
(* The command builder: properties.                                        *)
(***************************************************************************)
\* Token i passes extract_and_validate_filename.
Passes(tokens, i) ==
    extract_and_validate_filename(path_from(tokens[i])).kind = "Ok"

\* First index of the maximal suffix of passing tokens (Len + 1 when empty).
SuffixStart(tokens) ==
    SetMin({i \in 1..(Len(tokens) + 1) :
              \A j \in i..Len(tokens) : Passes(tokens, j)})

\* C10: for a non-empty token vector build returns one result per token of
\* the maximal suffix of tokens passing extract_and_validate_filename, in the
\* order of the tokens; when the suffix is empty it returns one
\* MissingTrailingFile error and nothing else.
C10_OneResultPerTrailingToken ==
    b_tokens # <<>> =>
        LET start == SuffixStart(b_tokens)
            n == Len(b_tokens) - start + 1
        IN  IF n = 0
            THEN /\ Len(b_results) = 1
                 /\ b_results[1].kind = "Err"
                 /\ b_results[1].error = "MissingTrailingFile"
            ELSE /\ Len(b_results) = n
                 /\ \A k \in 1..n :
                      /\ b_results[k] =
                           result_for(b_index, b_tokens,
                                      b_tokens[start + k - 1])
                      /\ b_results[k].kind = "Ok" =>
                           b_results[k].command.file =
                             path_file_name(path_from(
                               b_tokens[start + k - 1])).value

\* C10 witness: two trailing files gave a record and then an error, in the
\* order of the arguments.
C10_Witness ==
    /\ Len(b_tokens) = 3
    /\ SuffixStart(b_tokens) = 2
    /\ Len(b_results) = 2
    /\ b_results[1].kind = "Ok"
    /\ b_results[2].kind = "Err"

\* The builder has been called on a vector with at least one trailing file:
\* results and traces then stand one to one with the trailing tokens (C10).
TrailingToken(k) == b_tokens[SuffixStart(b_tokens) + k - 1]
ArgPath(k) == path_from(TrailingToken(k))
FileName(k) == path_file_name(ArgPath(k)).value

HasUnique(n) == n \in DOMAIN b_index /\ b_index[n].kind = "Unique"

\* Directory d joined with the relative path f, as text.
JoinDir(d, f) ==
    IF d = <<>> THEN f
    ELSE IF Last(d) = "/" THEN d \o f
    ELSE d \o <<"/">> \o f

\* Text before and after the last "/" of a rooted path.
DirOf(c) ==
    LET ls == SetMax(Positions(c, "/"))
    IN  IF ls = 1 THEN <<"/">> ELSE SubSeq(c, 1, ls - 1)
BaseOf(c) == SubSeq(c, SetMax(Positions(c, "/")) + 1, Len(c))

ExistingFile(c) == c # <<>> /\ c[1] = "/" /\ c \in DiskFiles

RecordOf(c) ==
    [kind |-> "Ok",
     command |-> [file |-> BaseOf(c), directory |-> DirOf(c),
                  arguments |-> b_tokens]]

Unresolved(k) ==
    [kind |-> "Err", error |-> "UnresolvedSourcePath", file |-> FileName(k),
     arguments |-> b_tokens]

MissingFo ==
    [kind |-> "Err", error |-> "MissingFoArgument", arguments |-> b_tokens]

FromCandidate(c, k) == IF ExistingFile(c) THEN RecordOf(c) ELSE Unresolved(k)

FoTokens ==
    {i \in 1..Len(b_tokens) :
        Len(b_tokens[i]) >= 3 /\ SubSeq(b_tokens[i], 1, 3) = <<"/", "F", "o">>}
HasFoToken == FoTokens # {}

\* C11: every record of a call carries the input token vector itself, element
\* by element and in order: the resolved path is not put into it, and all
\* records of the call carry the same vector.
C11_ArgumentsPreserved ==
    \A k \in 1..Len(b_results) :
        b_results[k].kind = "Ok" =>
            /\ Len(b_results[k].command.arguments) = Len(b_tokens)
            /\ \A i \in 1..Len(b_tokens) :
                 b_results[k].command.arguments[i] = b_tokens[i]

\* C11 witness: one call gave two records, one of them for an argument that
\* differs from the path it resolved to.
C11_Witness ==
    /\ Len(b_results) = 2
    /\ b_results[1].kind = "Ok"
    /\ b_results[2].kind = "Ok"
    /\ \E k \in 1..2 :
         JoinDir(b_results[k].command.directory, b_results[k].command.file)
            # TrailingToken(k)

\* C12: build on the empty vector returns the single error EmptyTokenVector,
\* no record, and its resolution consults nothing (no index lookup).
C12_EmptyTokenVector ==
    (b_results # <<>> /\ b_tokens = <<>>) =>
        /\ b_results = <<[kind |-> "Err", error |-> "EmptyTokenVector"]>>
        /\ b_trace = <<>>

\* C12 witness: build was called on the empty vector with a non-empty index.
C12_Witness ==
    /\ b_results # <<>>
    /\ b_tokens = <<>>
    /\ b_index # EmptyIndex

\* C13: the candidate is picked in fixed priority.  An absolute argument is
\* the candidate itself, and neither the index nor /Fo is consulted.
\* Otherwise, when the file name has a Unique entry, the candidate is that
\* parent joined with the file name, and when it is absolute /Fo is not
\* consulted.  /Fo is consulted only when the candidate is not absolute.
C13_CandidatePriority ==
    \A k \in 1..Len(b_trace) :
        LET ap == ArgPath(k)
            fn == FileName(k)
            tr == b_trace[k]
            r  == b_results[k]
        IN  /\ has_root(ap) =>
                 /\ ~tr.index_get
                 /\ ~tr.find_fo
                 /\ tr.probes = <<>>
                 /\ r = FromCandidate(ap, k)
            /\ (~has_root(ap) /\ HasUnique(fn)) =>
                 LET c == JoinDir(b_index[fn].path, fn)
                 IN  /\ tr.index_get
                     /\ has_root(c) =>
                          /\ ~tr.find_fo
                          /\ tr.probes = <<>>
                          /\ r = FromCandidate(c, k)
            /\ tr.find_fo =>
                 /\ ~has_root(ap)
                 /\ \/ ~HasUnique(fn)
                    \/ ~has_root(JoinDir(b_index[fn].path, fn))
            /\ tr.probes # <<>> => tr.find_fo

\* C13 witness: an absolute argument gave a record for its own directory
\* although the index holds a Unique entry for its file name under another
\* directory and the vector holds a /Fo token.
C13_Witness ==
    \E k \in 1..Len(b_trace) :
        /\ has_root(ArgPath(k))
        /\ HasUnique(FileName(k))
        /\ b_index[FileName(k)].path # DirOf(ArgPath(k))
        /\ HasFoToken
        /\ b_results[k] = RecordOf(ArgPath(k))

\* C14: for a trailing argument that is not absolute and whose file name has
\* no Unique entry (absent or Ambiguous), when no token starts with /Fo the
\* result is MissingFoArgument carrying the whole vector, and no record.
C14_MissingFoArgument ==
    \A k \in 1..Len(b_trace) :
        (/\ ~has_root(ArgPath(k))
         /\ ~HasUnique(FileName(k))
         /\ ~HasFoToken) => b_results[k] = MissingFo

\* C14 witness: the case has happened for an Ambiguous name and, in the same
\* call, for a name the index does not hold.
C14_Witness ==
    /\ ~HasFoToken
    /\ \E k \in 1..Len(b_trace) :
         /\ ~has_root(ArgPath(k))
         /\ FileName(k) \in DOMAIN b_index
         /\ b_index[FileName(k)] = Ambiguous
         /\ b_results[k] = MissingFo
    /\ \E k \in 1..Len(b_trace) :
         /\ ~has_root(ArgPath(k))
         /\ FileName(k) \notin DOMAIN b_index
         /\ b_results[k] = MissingFo

\* The path a /Fo token names: the token without its three-character prefix.
FoStart == path_from(SubSeq(b_tokens[SetMin(FoTokens)], 4,
                            Len(b_tokens[SetMin(FoTokens)])))

\* Dropping the last component of a path, as text ("/" and "" have none).
CanDrop(p) == p # <<>> /\ p # <<"/">>
DropLast(p) ==
    IF Positions(p, "/") = {} THEN <<>>
    ELSE DirOf(p)

\* The path itself and every path got from it by dropping last components.
RECURSIVE Levels(_)
Levels(p) == IF CanDrop(p) THEN <<p>> \o Levels(DropLast(p)) ELSE <<p>>

\* The tests a walk from p makes when nothing is found: at each level the
\* level plus the file name, then the level plus the argument as given.
AllTests(p, fn, arg) ==
    LET ls == Levels(p)
    IN  [i \in 1..(2 * Len(ls)) |->
            IF i % 2 = 1 THEN JoinDir(ls[(i + 1) \div 2], fn)
            ELSE JoinDir(ls[i \div 2], arg)]

Hits(tests) == {i \in 1..Len(tests) : ExistingFile(tests[i])}

\* The tests up to and including the first hit.
WalkTests(p, fn, arg) ==
    LET all == AllTests(p, fn, arg)
    IN  IF Hits(all) = {} THEN all ELSE SubSeq(all, 1, SetMin(Hits(all)))

\* The result of a walk: a record for the first hit, else unresolved.
WalkResult(p, k) ==
    LET tests == WalkTests(p, FileName(k), TrailingToken(k))
    IN  IF Hits(tests) = {} THEN Unresolved(k) ELSE RecordOf(Last(tests))

\* C15 (as claimed): whenever the fallback is taken, the walk starts from the
\* path the /Fo token names, absolute or relative, tests path + file name and
\* then path + argument at each level, takes the first hit, and otherwise
\* drops the last component until none is left.
C15_FoWalkFromAnyPath ==
    \A k \in 1..Len(b_trace) :
        (b_trace[k].find_fo /\ HasFoToken) =>
            /\ b_trace[k].probes
                 = WalkTests(FoStart, FileName(k), TrailingToken(k))
            /\ b_results[k] = WalkResult(FoStart, k)

\* C15 (amended): the walk is made only from a path with a root; a relative
\* /Fo path is not walked at all (no test, no pop) and the argument is
\* unresolved.
C15_FoWalkFromRootedPath ==
    \A k \in 1..Len(b_trace) :
        (b_trace[k].find_fo /\ HasFoToken) =>
            IF has_root(FoStart)
            THEN /\ b_trace[k].probes
                      = WalkTests(FoStart, FileName(k), TrailingToken(k))
                 /\ b_results[k] = WalkResult(FoStart, k)
            ELSE /\ b_trace[k].probes = <<>>
                 /\ b_results[k] = Unresolved(k)

\* C15 witness: a walk found the file at its second level by the second test
\* (path + argument as given), after three misses.
C15_Witness ==
    \E k \in 1..Len(b_trace) :
        /\ b_trace[k].find_fo
        /\ Len(b_trace[k].probes) = 4
        /\ TrailingToken(k) # FileName(k)
        /\ b_results[k] = RecordOf(b_trace[k].probes[4])

\* Every record names an absolute, existing regular file.
RecordsNameExistingFiles ==
    \A k \in 1..Len(b_results) :
        b_results[k].kind = "Ok" =>
            /\ has_root(b_results[k].command.directory)
            /\ ExistingFile(JoinDir(b_results[k].command.directory,
                                    b_results[k].command.file))

\* A candidate was computed for trailing argument k: by the argument being
\* absolute, by a Unique index entry, or by a hit of the /Fo walk.
CandidateComputed(k) ==
    \/ has_root(ArgPath(k))
    \/ HasUnique(FileName(k))
    \/ (b_trace[k].probes # <<>> /\ ExistingFile(Last(b_trace[k].probes)))

\* The candidate of the index is relative and the vector holds no /Fo token.
RelativeIndexCandidateWithoutFo(k) ==
    /\ ~has_root(ArgPath(k))
    /\ HasUnique(FileName(k))
    /\ ~has_root(JoinDir(b_index[FileName(k)].path, FileName(k)))
    /\ ~HasFoToken

\* C16 (as claimed): a record is produced only for an absolute existing
\* regular file, and whenever a candidate was computed but gave no record the
\* result is UnresolvedSourcePath with the file name and the whole vector.
C16_UnresolvedWheneverCandidateFails ==
    /\ RecordsNameExistingFiles
    /\ \A k \in 1..Len(b_trace) :
         (CandidateComputed(k) /\ b_results[k].kind # "Ok")
            => b_results[k] = Unresolved(k)

\* C16 (amended): as claimed, except that a relative candidate of the index
\* with no /Fo token in the vector gives MissingFoArgument.
C16_UnresolvedUnlessFoMissing ==
    /\ RecordsNameExistingFiles
    /\ \A k \in 1..Len(b_trace) :
         (CandidateComputed(k) /\ b_results[k].kind # "Ok") =>
            IF RelativeIndexCandidateWithoutFo(k)
            THEN b_results[k] = MissingFo
            ELSE b_results[k] = Unresolved(k)

\* C16 witness: in one call a Unique entry whose directory holds no such file
\* gave UnresolvedSourcePath and another trailing argument gave a record.
C16_Witness ==
    /\ \E k \in 1..Len(b_trace) :
         /\ ~has_root(ArgPath(k))
         /\ HasUnique(FileName(k))
         /\ has_root(b_index[FileName(k)].path)
         /\ b_results[k] = Unresolved(k)
    /\ \E k \in 1..Len(b_trace) : b_results[k].kind = "Ok"

\* config.rs DEFAULT_FILE_EXTENSIONS
DEFAULT_FILE_EXTENSIONS ==
    {<<"c">>, <<"c", "c">>, <<"c", "p", "p">>, <<"c", "x", "x">>,
     <<"c", "+", "+">>, <<"h">>, <<"h", "h">>, <<"h", "p", "p">>,
     <<"h", "x", "x">>, <<"h", "+", "+">>, <<"i", "n", "l">>}

\* Token i names a file with a recognized extension.
Recognized(tokens, i) ==
    LET ext == path_extension(path_from(tokens[i]))
    IN  ext # None /\ to_lowercase(ext.value) \in DEFAULT_FILE_EXTENSIONS

RecognizedStart(tokens) ==
    SetMin({i \in 1..(Len(tokens) + 1) :
              \A j \in i..Len(tokens) : Recognized(tokens, j)})

\* C17 (as claimed): only trailing tokens with a recognized extension are
\* treated as trailing source files: build gives one result per token of the
\* maximal suffix of such tokens, and a token with another extension ends the
\* backward scan and gets no result.
C17_OnlyRecognizedExtensions ==
    b_tokens # <<>> =>
        LET n == Len(b_tokens) - RecognizedStart(b_tokens) + 1
        IN  IF n = 0
            THEN /\ Len(b_results) = 1
                 /\ b_results[1].kind = "Err"
                 /\ b_results[1].error = "MissingTrailingFile"
            ELSE Len(b_results) = n

\* The vector is the compiler executable followed only by source files, each
\* of which resolves.
ExecutableThenSources(tokens) ==
    /\ Len(tokens) >= 2
    /\ tokens[1] = T_cl
    /\ \A i \in 2..Len(tokens) :
         /\ Recognized(tokens, i)
         /\ result_for(b_index, tokens, tokens[i]).kind = "Ok"

\* C39 (as claimed): the backward scan stops before token 0: for the
\* executable followed only by source files that resolve, build returns one
\* record per source file and no error.
C39_ScanStopsBeforeExecutable ==
    ExecutableThenSources(b_tokens) =>
        /\ Len(b_results) = Len(b_tokens) - 1
        /\ \A k \in 1..Len(b_results) : b_results[k].kind = "Ok"

\* What build returns for such a vector: a result for the executable, then
\* the record of each source file.
ExecutableGetsAResult ==
    ExecutableThenSources(b_tokens) =>
        /\ Len(b_results) = Len(b_tokens)
        /\ b_results[1] = result_for(b_index, b_tokens, T_cl)
        /\ \A k \in 2..Len(b_results) : b_results[k].kind = "Ok"

\* C22 (as claimed): the resolver asks the index for the lower-cased file
\* name.  For a trailing argument that is not absolute and whose lower-cased
\* file name has a Unique entry with an absolute parent, the candidate comes
\* from that entry, so /Fo is not consulted and the result is the record of
\* parent/file-name or UnresolvedSourcePath, never MissingFoArgument.
C22_LookupIgnoresCase ==
    \A k \in 1..Len(b_trace) :
        LET lower == to_lowercase(FileName(k))
        IN  (/\ ~has_root(ArgPath(k))
             /\ HasUnique(lower)
             /\ has_root(b_index[lower].path)) =>
                /\ b_trace[k].index_get
                /\ ~b_trace[k].find_fo
                /\ b_results[k] # MissingFo

(***************************************************************************)
(* The tokenizer: lib.rs parser::tokenize_compile_command, which TokenIter *)
(* applies to every command line the scanner yields.                       *)
(***************************************************************************)
Repeat(c, n) == [i \in 1..n |-> c]

ends_with(s, suffix) ==
    Len(s) >= Len(suffix)
    /\ SubSeq(s, Len(s) - Len(suffix) + 1, Len(s)) = suffix

ExecutableSuffixes ==
    {<<".", "e", "x", "e">>, <<".", "c", "o", "m">>,
     <<".", "c", "m", "d">>, <<".", "b", "a", "t">>}

\* lib.rs is_executable_path
is_executable_path(token) ==
    LET lowercase == to_lowercase(trim_matches(token, WhiteSpace))
    IN  \E suffix \in ExecutableSuffixes : ends_with(lowercase, suffix)

TokInit ==
    [tokens |-> <<>>, current |-> <<>>, in_quotes |-> FALSE,
     backslash_count |-> 0, argument_in_progress |-> FALSE]

\* Variant: a quote emits every pending backslash instead of half of them.
tok_char_no_halving(st, ch) ==
    IF ch = "\\"
    THEN [st EXCEPT !.backslash_count = @ + 1]
    ELSE IF ch = "\""
    THEN LET cur == st.current \o Repeat("\\", st.backslash_count)
         IN  IF st.backslash_count % 2 = 0
             THEN [st EXCEPT !.current = cur,
                             !.argument_in_progress = TRUE,
                             !.in_quotes = ~@,
                             !.backslash_count = 0]
             ELSE [st EXCEPT !.current = cur \o <<"\"">>,
                             !.argument_in_progress = TRUE,
                             !.backslash_count = 0]
    ELSE IF ch \in WhiteSpace /\ ~st.in_quotes
    THEN LET cur == st.current \o Repeat("\\", st.backslash_count)
         IN  IF st.argument_in_progress \/ st.backslash_count > 0
             THEN [st EXCEPT !.tokens = Append(@, cur),
                             !.current = <<>>,
                             !.backslash_count = 0,
                             !.argument_in_progress = FALSE]
             ELSE st
    ELSE [st EXCEPT !.current =
                       @ \o Repeat("\\", st.backslash_count) \o <<ch>>,
                    !.backslash_count = 0,
                    !.argument_in_progress = TRUE]

\* Variant: a delimiting quote does not mark an argument as in progress.
tok_char_quote_opens_nothing(st, ch) ==
    IF ch = "\\"
    THEN [st EXCEPT !.backslash_count = @ + 1]
    ELSE IF ch = "\""
    THEN LET cur == st.current \o Repeat("\\", st.backslash_count \div 2)
         IN  IF st.backslash_count % 2 = 0
             THEN [st EXCEPT !.current = cur,
                             !.in_quotes = ~@,
                             !.backslash_count = 0]
             ELSE [st EXCEPT !.current = cur \o <<"\"">>,
                             !.argument_in_progress = TRUE,
                             !.backslash_count = 0]
    ELSE IF ch \in WhiteSpace /\ ~st.in_quotes
    THEN LET cur == st.current \o Repeat("\\", st.backslash_count)
         IN  IF st.argument_in_progress \/ st.backslash_count > 0
             THEN [st EXCEPT !.tokens = Append(@, cur),
                             !.current = <<>>,
                             !.backslash_count = 0,
                             !.argument_in_progress = FALSE]
             ELSE st
    ELSE [st EXCEPT !.current =
                       @ \o Repeat("\\", st.backslash_count) \o <<ch>>,
                    !.backslash_count = 0,
                    !.argument_in_progress = TRUE]

\* One pass of the `for ch in line.chars()` loop (lines 205-263).
tok_char(st, ch) ==
    IF ch = "\\"
    THEN [st EXCEPT !.backslash_count = @ + 1]
    ELSE IF ch = "\""
    THEN LET cur == st.current \o Repeat("\\", st.backslash_count \div 2)
         IN  IF st.backslash_count % 2 = 0
             THEN [st EXCEPT !.current = cur,
                             !.argument_in_progress = TRUE,
                             !.in_quotes = ~@,
                             !.backslash_count = 0]
             ELSE [st EXCEPT !.current = cur \o <<"\"">>,
                             !.argument_in_progress = TRUE,
                             !.backslash_count = 0]
    ELSE IF ch \in WhiteSpace /\ ~st.in_quotes
    THEN LET cur == st.current \o Repeat("\\", st.backslash_count)
         IN  IF st.argument_in_progress \/ st.backslash_count > 0
             THEN [st EXCEPT !.tokens = Append(@, cur),
                             !.current = <<>>,
                             !.backslash_count = 0,
                             !.argument_in_progress = FALSE]
             ELSE st
    ELSE [st EXCEPT !.current =
                       @ \o Repeat("\\", st.backslash_count) \o <<ch>>,
                    !.backslash_count = 0,
                    !.argument_in_progress = TRUE]

RECURSIVE tok_fold(_, _, _)
tok_fold(st, line, i) ==
    IF i > Len(line) THEN st ELSE tok_fold(tok_char(st, line[i]), line, i + 1)

\* Variant: the argument open at the end of the line is not pushed.
tok_finish_drops_open_argument(st) == st.tokens

\* Lines 265-274: the pending backslashes and the last argument.
tok_finish(st) ==
    LET cur == st.current \o Repeat("\\", st.backslash_count)
    IN  IF st.argument_in_progress \/ st.backslash_count > 0
        THEN Append(st.tokens, cur)
        ELSE st.tokens

\* Lines 276-304: a first token holding ":" that is no executable path is
\* glued to the following tokens up to the first one that completes one.
merge_executable(tokens) ==
    IF tokens = <<>> THEN tokens
    ELSE IF ~(Positions(tokens[1], ":") # {} /\ ~is_executable_path(tokens[1]))
    THEN tokens
    ELSE LET ends == {idx \in 2..Len(tokens) :
                        is_executable_path(JoinSp(SubSeq(tokens, 1, idx)))}
         IN  IF ends = {} THEN tokens
             ELSE <<JoinSp(SubSeq(tokens, 1, SetMin(ends)))>>
                    \o SubSeq(tokens, SetMin(ends) + 1, Len(tokens))

tokenize_compile_command(line) ==
    merge_executable(tok_finish(tok_fold(TokInit, line, 1)))

(***************************************************************************)
(* The file walker: fs_index.rs FileWalker.  A directory tree is a set of  *)
(* entries, each a path with what the file system says it is: a regular    *)
(* file, a directory, a directory that read_dir cannot read ("locked"), or *)
(* something that is neither file nor directory ("other": a socket, a      *)
(* dangling link).                                                         *)
(***************************************************************************)
MaxWalkEntries == 4

N_root == [path |-> <<"/", "r">>, kind |-> "dir"]
N_M    == [path |-> <<"/", "r", "/", "M", ".", "C">>, kind |-> "file"]
N_obj  == [path |-> <<"/", "r", "/", "n", ".", "o">>, kind |-> "file"]
N_X    == [path |-> <<"/", "r", "/", "X">>, kind |-> "dir"]
N_Xk   == [path |-> <<"/", "r", "/", "X", "/", "k", ".", "c">>, kind |-> "file"]
N_s    == [path |-> <<"/", "r", "/", "s">>, kind |-> "dir"]
N_sk   == [path |-> <<"/", "r", "/", "s", "/", "k", ".", "c">>, kind |-> "file"]
N_sp   == [path |-> <<"/", "r", "/", "s", "/", "p">>, kind |-> "other"]
N_L    == [path |-> <<"/", "r", "/", "L">>, kind |-> "locked"]

WalkRoot == N_root.path

WalkEntries == {N_M, N_obj, N_X, N_Xk, N_s, N_sk, N_sp, N_L}

\* The trees under the root: every entry lies in a directory of the tree.
WalkTrees ==
    {t \cup {N_root} : t \in
        {u \in SUBSET WalkEntries :
            /\ Cardinality(u) <= MaxWalkEntries
            /\ \A n \in u :
                 \E d \in u \cup {N_root} :
                    d.kind = "dir" /\ path_parent(n.path) = Some(d.path)}}

\* The configuration handed to FileWalker::new, which lower-cases both lists.
WalkExcludeDirectories == << <<"X">> >>
WalkFileExtensions == << <<"C">> >>

exclude_directories == [i \in 1..Len(WalkExcludeDirectories) |->
                           to_lowercase(WalkExcludeDirectories[i])]
allowed_extensions == [i \in 1..Len(WalkFileExtensions) |->
                          to_lowercase(WalkFileExtensions[i])]

\* Path::is_dir, Path::is_file and read_dir on the tree.
EntryAt(tree, p) == CHOOSE n \in tree : n.path = p
is_dir(tree, p) ==
    \E n \in tree : n.path = p /\ n.kind \in {"dir", "locked"}
is_file(tree, p) == \E n \in tree : n.path = p /\ n.kind = "file"
read_dir_fails(tree, p) == EntryAt(tree, p).kind = "locked"
read_dir(tree, p) == {n \in tree : path_parent(n.path) = Some(p)}

\* FileWalker::should_skip_directory
should_skip_directory(p) ==
    /\ path_file_name(p) # None
    /\ \E i \in 1..Len(exclude_directories) :
         exclude_directories[i] = to_lowercase(path_file_name(p).value)

\* FileWalker::is_allowed_file
is_allowed_file(p) ==
    /\ path_extension(p) # None
    /\ \E i \in 1..Len(allowed_extensions) :
         allowed_extensions[i] = to_lowercase(path_extension(p).value)

IoError(p) == [kind |-> "Err", error |-> "Io", path |-> p]
UnexpectedEntry(p) == [kind |-> "Err", error |-> "UnexpectedEntry", path |-> p]
WalkOk(p) == [kind |-> "Ok", path |-> p]

\* The orders in which read_dir may list a set of entries.
Listings(S) ==
    {f \in [1..Cardinality(S) -> S] :
        \A i, j \in 1..Cardinality(S) : f[i] = f[j] => i = j}

\* `for entry in entries` (lines 84-110) over one listing: the entries it
\* pushes on the queue, up to the first entry that is neither directory nor
\* file, at which next() returns.
listing_stop(tree, ls) ==
    LET bad == {i \in 1..Len(ls) :
                  ~is_dir(tree, ls[i].path) /\ ~is_file(tree, ls[i].path)}
    IN  IF bad = {} THEN Len(ls) + 1 ELSE SetMin(bad)

listing_pushed(tree, ls) ==
    LET seen == SubSeq(ls, 1, listing_stop(tree, ls) - 1)
        kept == SelectSeq(seen, LAMBDA n :
                    is_dir(tree, n.path)
                    \/ (is_file(tree, n.path) /\ is_allowed_file(n.path)))
    IN  [i \in 1..Len(kept) |-> kept[i].path]

InitWalk ==
    /\ wk_tree \in WalkTrees
    /\ wk_queue = <<WalkRoot>>
    /\ wk_items = <<>>
    /\ wk_done = FALSE
    /\ IndexIdle
    /\ ScanIdle
    /\ BuildIdle
    /\ Stage2Idle
    /\ TokIdle
    /\ MainIdle

\* One pass of `while let Some(path) = self.queue.pop_front()` (line 77):
\* a directory is skipped, fails to be read, or has its entries queued; a
\* file with an allowed extension is returned as its lower-cased path.
WalkPop ==
    /\ ~wk_done
    /\ wk_queue # <<>>
    /\ LET path == Head(wk_queue)
       IN  IF is_dir(wk_tree, path)
           THEN IF should_skip_directory(path)
                THEN /\ wk_queue' = Tail(wk_queue)
                     /\ UNCHANGED wk_items
                ELSE IF read_dir_fails(wk_tree, path)
                THEN /\ wk_queue' = Tail(wk_queue)
                     /\ wk_items' = Append(wk_items, IoError(path))
                ELSE \E ls \in Listings(read_dir(wk_tree, path)) :
                       /\ wk_queue' = Tail(wk_queue)
                                         \o listing_pushed(wk_tree, ls)
                       /\ wk_items' =
                            IF listing_stop(wk_tree, ls) <= Len(ls)
                            THEN Append(wk_items, UnexpectedEntry(
                                    ls[listing_stop(wk_tree, ls)].path))
                            ELSE wk_items
           ELSE IF is_file(wk_tree, path)
           THEN /\ wk_queue' = Tail(wk_queue)
                /\ wk_items' = IF is_allowed_file(path)
                               THEN Append(wk_items,
                                           WalkOk(normalize_path(path)))
                               ELSE wk_items
           ELSE /\ wk_queue' = Tail(wk_queue)
                /\ wk_items' = Append(wk_items, UnexpectedEntry(path))
    /\ UNCHANGED <<wk_tree, wk_done>>
    /\ UNCHANGED <<idxVars, scanVars, buildVars, s2Vars, tokVars, lerrVars,
                   sentVars, mainVars>>

\* The queue is empty: next() returns None (line 127).
WalkNone ==
    /\ ~wk_done
    /\ wk_queue = <<>>
    /\ wk_done' = TRUE
    /\ UNCHANGED <<wk_tree, wk_queue, wk_items>>
    /\ UNCHANGED <<idxVars, scanVars, buildVars, s2Vars, tokVars, lerrVars,
                   sentVars, mainVars>>

NextWalk == WalkPop \/ WalkNone

SpecWalk == InitWalk /\ [][NextWalk]_vars

(***************************************************************************)
(* The file walker: properties.                                            *)
(***************************************************************************)
\* The directories on the way from the root to entry n, the root excluded.
DirsOnTheWay(n) ==
    {d \in wk_tree :
        /\ d.kind \in {"dir", "locked"}
        /\ d.path # WalkRoot
        /\ Len(d.path) < Len(n.path)
        /\ SubSeq(n.path, 1, Len(d.path) + 1) = d.path \o <<"/">>}

NameOf(q) == SubSeq(q, SetMax(Positions(q, "/")) + 1, Len(q))

ExtensionOf(q) ==
    LET name == NameOf(q)
        dots == Positions(name, ".")
    IN  IF dots = {} \/ SetMax(dots) = 1 THEN <<>>
        ELSE SubSeq(name, SetMax(dots) + 1, Len(name))

\* The regular files an indexing run is to find.
Eligible ==
    {n \in wk_tree :
        /\ n.kind = "file"
        /\ \E i \in 1..Len(WalkFileExtensions) :
             to_lowercase(WalkFileExtensions[i]) = to_lowercase(ExtensionOf(n.path))
        /\ \A d \in DirsOnTheWay(n) :
             \A i \in 1..Len(WalkExcludeDirectories) :
                to_lowercase(WalkExcludeDirectories[i])
                   # to_lowercase(NameOf(d.path))}

Yielded == SelectSeq(wk_items, LAMBDA it : it.kind = "Ok")
Reported == SelectSeq(wk_items, LAMBDA it : it.kind = "Err")

\* C28 (as claimed): when the walk is over, the paths yielded are the
\* lower-cased paths of the eligible files, each once, and nothing else.
C28_YieldsExactlyEligibleFiles ==
    wk_done =>
        /\ \A n \in Eligible :
             CountIn(Yielded, WalkOk(to_lowercase(n.path))) = 1
        /\ \A k \in 1..Len(Yielded) :
             \E n \in Eligible : Yielded[k] = WalkOk(to_lowercase(n.path))

\* The same for a tree in which every entry is a file or a directory.
YieldsExactlyWithoutOtherEntries ==
    (wk_done /\ \A n \in wk_tree : n.kind # "other") =>
        /\ \A n \in Eligible :
             CountIn(Yielded, WalkOk(to_lowercase(n.path))) = 1
        /\ \A k \in 1..Len(Yielded) :
             \E n \in Eligible : Yielded[k] = WalkOk(to_lowercase(n.path))

\* C29 (as claimed): a walk that reported an error still yielded every
\* eligible file: those of the sibling subtrees and those of the directory
\* in which the error arose.
C29_ErrorCostsNoOtherFile ==
    (wk_done /\ Reported # <<>>) =>
        \A n \in Eligible :
            \E k \in 1..Len(Yielded) : Yielded[k].path = to_lowercase(n.path)

\* The same for errors of directories that cannot be read.
IoErrorCostsNoOtherFile ==
    (/\ wk_done
     /\ Reported # <<>>
     /\ \A k \in 1..Len(Reported) : Reported[k].error = "Io") =>
        \A n \in Eligible :
            \E k \in 1..Len(Yielded) : Yielded[k].path = to_lowercase(n.path)

(***************************************************************************)
(* The tokenizer as a state machine: one call of tokenize_compile_command, *)
(* one character of the line per step.                                     *)
(***************************************************************************)
MaxTokLen == 5
MaxTokWords == 3

TokChars == {"a", " ", "\"", "\\"}

\* Every line of up to MaxTokLen characters.
CharLines == UNION {[1..n -> TokChars] : n \in 0..MaxTokLen}

W_drive == <<"C", ":", "\\", "p">>
W_file  == <<"f">>
W_exe   == <<"x", ".", "E", "x", "e">>
W_cl    == <<"C", ":", "c", "l", ".", "e", "x", "e">>

TokWords == {W_drive, W_file, W_exe, W_cl}

\* Lines of up to MaxTokWords words, separated by single spaces.
WordLines == {JoinSp(v) : v \in UNION {[1..n -> TokWords] : n \in 1..MaxTokWords}}

TokLines == CharLines \cup WordLines

InitTok ==
    /\ tk_line \in TokLines
    /\ tk_pos = 0
    /\ tk_state = TokInit
    /\ tk_split = None
    /\ tk_out = None
    /\ IndexIdle
    /\ ScanIdle
    /\ BuildIdle
    /\ Stage2Idle
    /\ WalkIdle
    /\ MainIdle

\* One pass of `for ch in line.chars()`.
TokChar ==
    /\ tk_split = None
    /\ tk_pos < Len(tk_line)
    /\ tk_state' = tok_char(tk_state, tk_line[tk_pos + 1])
    /\ tk_pos' = tk_pos + 1
    /\ UNCHANGED <<tk_line, tk_split, tk_out>>
    /\ UNCHANGED <<idxVars, scanVars, buildVars, s2Vars, walkVars, lerrVars,
                   sentVars, mainVars>>

\* The loop is over: pending backslashes and the open argument (265-274).
TokEndOfLine ==
    /\ tk_split = None
    /\ tk_pos = Len(tk_line)
    /\ tk_split' = Some(tok_finish(tk_state))
    /\ UNCHANGED <<tk_line, tk_pos, tk_state, tk_out>>
    /\ UNCHANGED <<idxVars, scanVars, buildVars, s2Vars, walkVars, lerrVars,
                   sentVars, mainVars>>

\* The reassembly of the executable path and the return (276-306).
TokReturn ==
    /\ tk_split # None
    /\ tk_out = None
    /\ tk_out' = Some(merge_executable(tk_split.value))
    /\ UNCHANGED <<tk_line, tk_pos, tk_state, tk_split>>
    /\ UNCHANGED <<idxVars, scanVars, buildVars, s2Vars, walkVars, lerrVars,
                   sentVars, mainVars>>

NextTok == TokChar \/ TokEndOfLine \/ TokReturn

SpecTok == InitTok /\ [][NextTok]_vars

(***************************************************************************)
(* The tokenizer: properties.                                              *)
(***************************************************************************)
\* A token without quote and whitespace.
Plain(t) == \A i \in 1..Len(t) : t[i] \notin WhiteSpace \cup {"\""}

\* The vectors of such tokens whose rendering, the tokens joined by single
\* spaces, is the given line.  The empty line renders the empty vector and
\* the vector of one empty token.
Renderings(line) ==
    IF \E i \in 1..Len(line) : line[i] \in (WhiteSpace \ {" "}) \cup {"\""}
    THEN {}
    ELSE IF line = <<>> THEN {<<>>, << <<>> >>}
    ELSE {split(line, " ")}

EndsInExecutableExtension(t) ==
    \E suffix \in ExecutableSuffixes : ends_with(to_lowercase(t), suffix)

\* C23 (as claimed): the call returns v for every vector v of tokens without
\* quote and whitespace that the line renders.
C23_RoundTrip ==
    tk_out # None => \A v \in Renderings(tk_line) : tk_out.value = v

\* C23 (amended): the call returns v for every such vector v whose tokens
\* are non-empty and whose first token holds no colon or ends in an
\* executable extension.
C23_RoundTripOfNonEmptyTokens ==
    tk_out # None =>
        \A v \in Renderings(tk_line) :
            (/\ \A i \in 1..Len(v) : v[i] # <<>>
             /\ v # <<>> => \/ Positions(v[1], ":") = {}
                            \/ EndsInExecutableExtension(v[1]))
            => tk_out.value = v

\* C23 witness: a line of three words, the first a drive path ending in
\* .exe, the last holding a backslash, came back as its three words.
C23_Witness ==
    /\ tk_out = Some(<<W_cl, W_file, W_drive>>)
    /\ tk_line = JoinSp(<<W_cl, W_file, W_drive>>)

\* A line holding exactly two quotes: the text before the first (Before),
\* between them (Quoted) and after the second (After).
QuotePos == Positions(tk_line, "\"")
TwoQuotes == Cardinality(QuotePos) = 2
Before == SubSeq(tk_line, 1, SetMin(QuotePos) - 1)
Quoted == SubSeq(tk_line, SetMin(QuotePos) + 1, SetMax(QuotePos) - 1)
After  == SubSeq(tk_line, SetMax(QuotePos) + 1, Len(tk_line))

EndsWithBackslash(t) == t # <<>> /\ Last(t) = "\\"

\* C24 (as claimed): a quoted string without a quote inside gives the one
\* token made of its content, and with unquoted text right before or after
\* it the one token made of that text and the content.
C24_QuotedStringIsOneToken ==
    (tk_out # None /\ TwoQuotes /\ Plain(Before) /\ Plain(After)) =>
        tk_out.value = <<Before \o Quoted \o After>>

\* C24 (amended): the same for a content that does not end with a backslash
\* and a text before it that does not end with a backslash.
C24_QuotedStringWithoutFinalBackslash ==
    (/\ tk_out # None
     /\ TwoQuotes
     /\ Plain(Before)
     /\ Plain(After)
     /\ ~EndsWithBackslash(Quoted)
     /\ ~EndsWithBackslash(Before)) =>
        tk_out.value = <<Before \o Quoted \o After>>

\* C24 witness: the line a" a" gave the one token `a a`, the unquoted a
\* joined with the quoted content and its space.
C24_Witness ==
    /\ tk_line = <<"a", "\"", " ", "a", "\"">>
    /\ tk_out = Some(<< <<"a", " ", "a">> >>)

\* The quote at position i delimits (it is not escaped): the run of
\* backslashes right before it has even length.
BackslashesBefore(line, i) ==
    LET others == {j \in 1..(i - 1) : line[j] # "\\"}
    IN  IF others = {} THEN i - 1 ELSE i - 1 - SetMax(others)

Delimits(line, i) ==
    line[i] = "\"" /\ BackslashesBefore(line, i) % 2 = 0

\* Position i lies inside a quoted segment.
InsideQuotes(line, i) ==
    Cardinality({j \in 1..(i - 1) : Delimits(line, j)}) % 2 = 1

\* Position i separates arguments: whitespace outside quotes.
Separates(line, i) == line[i] \in WhiteSpace /\ ~InsideQuotes(line, i)

\* The arguments of a line: the maximal runs of positions that do not
\* separate, as pairs <<first, last>>, and the r-th of them from the left.
ArgumentRuns(line) ==
    {<<a, b>> \in (1..Len(line)) \X (1..Len(line)) :
        /\ a <= b
        /\ \A i \in a..b : ~Separates(line, i)
        /\ a = 1 \/ Separates(line, a - 1)
        /\ b = Len(line) \/ Separates(line, b + 1)}

RunAt(line, r) ==
    CHOOSE run \in ArgumentRuns(line) :
        Cardinality({o \in ArgumentRuns(line) : o[1] <= run[1]}) = r

RECURSIVE Flatten(_)
Flatten(ts) == IF ts = <<>> THEN <<>> ELSE Head(ts) \o Flatten(Tail(ts))

Emitted(st) == Flatten(st.tokens) \o st.current

\* C26: what a run of n pending backslashes becomes.  A backslash only adds
\* to the run.  A quote after the run emits floor(n/2) backslashes and then,
\* for even n, toggles quote mode and emits no quote, for odd n, emits one
\* quote and leaves quote mode as it is.  Any other character emits the n
\* backslashes (and itself, unless it is whitespace outside quotes), and so
\* does the end of the line.  After each of these the pending count is 0.
C26_BackslashRuns ==
    [][ /\ tk_pos' = tk_pos + 1 =>
             LET ch == tk_line[tk_pos + 1]
                 n  == tk_state.backslash_count
             IN  IF ch = "\\"
                 THEN /\ tk_state'.backslash_count = n + 1
                      /\ Emitted(tk_state') = Emitted(tk_state)
                      /\ tk_state'.in_quotes = tk_state.in_quotes
                 ELSE IF ch = "\""
                 THEN /\ Emitted(tk_state') =
                            Emitted(tk_state) \o [i \in 1..(n \div 2) |-> "\\"]
                               \o (IF n % 2 = 1 THEN <<"\"">> ELSE <<>>)
                      /\ tk_state'.in_quotes =
                            (IF n % 2 = 0 THEN ~tk_state.in_quotes
                             ELSE tk_state.in_quotes)
                      /\ tk_state'.backslash_count = 0
                 ELSE /\ Emitted(tk_state') =
                            Emitted(tk_state) \o [i \in 1..n |-> "\\"]
                               \o (IF ch \in WhiteSpace /\ ~tk_state.in_quotes
                                   THEN <<>> ELSE <<ch>>)
                      /\ tk_state'.in_quotes = tk_state.in_quotes
                      /\ tk_state'.backslash_count = 0
        /\ (tk_split = None /\ tk_split' # None) =>
             Flatten(tk_split'.value) =
                Emitted(tk_state)
                   \o [i \in 1..tk_state.backslash_count |-> "\\"]
      ]_vars

\* C26 witness: three backslashes and a quote were split into one token,
\* one backslash and the quote.
C26_Witness ==
    /\ tk_line = <<"\\", "\\", "\\", "\"">>
    /\ tk_split = Some(<< <<"\\", "\"">> >>)

\* The reassembly as stated: a first token with a colon that does not end
\* in an executable extension is joined with the following tokens up to the
\* first one with which the joined text ends in such an extension, or with
\* all of them when there is none, and stands in their place.
Reassembled(ts) ==
    IF ts = <<>> THEN ts
    ELSE IF Positions(ts[1], ":") = {} \/ EndsInExecutableExtension(ts[1])
    THEN ts
    ELSE LET ends == {k \in 2..Len(ts) :
                        EndsInExecutableExtension(JoinSp(SubSeq(ts, 1, k)))}
         IN  IF ends = {} THEN <<JoinSp(ts)>>
             ELSE <<JoinSp(SubSeq(ts, 1, SetMin(ends)))>>
                    \o SubSeq(ts, SetMin(ends) + 1, Len(ts))

\* C27 (as claimed): the returned vector is the reassembly of the tokens
\* the splitting loop gave.
C27_ExecutablePathReassembled ==
    tk_out # None => tk_out.value = Reassembled(tk_split.value)

\* The same where some joined text ends in an executable extension or the
\* first token needs no joining (the case the code handles as stated).
ReassemblyCompletes ==
    (/\ tk_out # None
     /\ \/ Len(tk_split.value) <= 1
        \/ Positions(tk_split.value[1], ":") = {}
        \/ \E k \in 1..Len(tk_split.value) :
              EndsInExecutableExtension(JoinSp(SubSeq(tk_split.value, 1, k))))
    => tk_out.value = Reassembled(tk_split.value)

(***************************************************************************)
(* Stage 2: PipelineCoordinator::generate_compile_commands and             *)
(* run_database_stage (pipeline.rs 87-104, 195-273) with the run loop of   *)
(* the builder (command_builder.rs 36-59).  The scanner thread, the        *)
(* builder thread, the error collector and the collecting main thread are  *)
(* joined by three unbounded channels.                                     *)
(***************************************************************************)
S2_two   == S_cl \o SP \o S_zi \o SP \o T_b \o SP \o T_a
S2_start == S_cl \o SP \o S_zi
S2_file  == T_a

Stage2Lines == {S2_two, S2_start, S2_file}

MaxS2Lines == 3
MaxLookupCalls == 1
MaxInFlight == 1

\* The collector's list is kept up to this length, which no run over a
\* finite log reaches; only a reader that fails for ever fills it.
ErrorsKept == 2 * MaxS2Lines + MaxReadErrors + 2

\* Variant: the reader stays in its slot.
take_keeps_value(slot) == [value |-> slot, slot |-> slot]

\* Option::take on the coordinator's log_reader (pipeline.rs 91-95).
take(slot) == [value |-> slot, slot |-> "None"]

\* Variant: the run loop stops forwarding at the first error of a build.
builder_events_until_error(index, tokens) ==
    LET events == assemble(index, tokens)
        errs == {k \in 1..Len(events) : events[k].kind = "Err"}
    IN  IF errs = {} THEN events ELSE SubSeq(events, 1, SetMin(errs))

\* Variant: the events of a token vector are forwarded last first.
builder_events_reversed(index, tokens) ==
    LET events == assemble(index, tokens)
    IN  [k \in 1..Len(events) |-> events[Len(events) + 1 - k]]

\* CommandBuilder::run, line 43: the events of one token vector, all of
\* which the inner loop forwards.
builder_events(index, tokens) == assemble(index, tokens)

InitStage2 ==
    /\ IndexIdle
    /\ file_extensions = <<E_c>>
    /\ pending_command = None
    /\ scan_out = <<>>
    /\ scan_done = FALSE
    /\ lines_read = <<>>
    /\ acc_lines = <<>>
    /\ read_errors = 0
    /\ b_index = Index_a_unique
    /\ b_tokens = <<>>
    /\ b_results = <<>>
    /\ b_trace = <<>>
    /\ Stage2Idle
    /\ TokIdle
    /\ WalkIdle
    /\ MainIdle

\* build_lookup_tree: runs stage 1 on clones of the configuration (the
\* subject of SpecIndex); log_reader is not among what it reads.
CallBuildLookupTree ==
    /\ caller_pc = "idle"
    /\ lookup_calls < MaxLookupCalls
    /\ lookup_calls' = lookup_calls + 1
    /\ UNCHANGED <<log_reader, caller_pc, gen_calls, gen_runs, reader_state,
                   token_ch, cmd_ch, err_ch, bld_pc, bld_events, col_pc,
                   errors, m_pc, compile_commands>>
    /\ UNCHANGED <<idxVars, scanVars, buildVars,
                   tokVars, walkVars, lerrVars, sentVars, mainVars>>

\* History of the error channel of stage 2: what a thread has sent, kept
\* to the length the collector's list is kept to.
sent_on(sent, e) == IF Len(sent) < ErrorsKept THEN Append(sent, e) ELSE sent

\* generate_compile_commands: takes the reader, or panics with "log reader
\* already consumed"; with the reader, run_database_stage spawns the error
\* collector, the scanner and the builder (on the index handed over) and
\* starts collecting (195-258).
Generate(index) ==
    /\ caller_pc = "idle"
    /\ gen_calls' = gen_calls + 1
    /\ log_reader' = take(log_reader).slot
    /\ IF take(log_reader).value = "None"
       THEN /\ caller_pc' = "panicked"
            /\ UNCHANGED <<gen_runs, token_ch, cmd_ch, err_ch, bld_pc,
                           bld_events, col_pc, errors, m_pc,
                           compile_commands, pending_command, scan_done,
                           b_index, scan_sent, bld_sent>>
       ELSE /\ caller_pc' = "generating"
            /\ gen_runs' = gen_runs + 1
            /\ token_ch' = <<>>
            /\ cmd_ch' = <<>>
            /\ err_ch' = <<>>
            /\ bld_pc' = "recv"
            /\ bld_events' = <<>>
            /\ col_pc' = "run"
            /\ errors' = <<>>
            /\ m_pc' = "collecting"
            /\ compile_commands' = <<>>
            /\ pending_command' = None
            /\ scan_done' = FALSE
            /\ b_index' = index
            /\ scan_sent' = <<>>
            /\ bld_sent' = <<>>
    /\ UNCHANGED <<lookup_calls, reader_state>>
    /\ UNCHANGED <<file_extensions, scan_out, lines_read, acc_lines,
                   read_errors>>
    /\ UNCHANGED <<b_tokens, b_results, b_trace>>
    /\ UNCHANGED <<idxVars, tokVars, walkVars, lerrVars, mainVars>>

\* The coordinator was built on the index it holds.
CallGenerate == Generate(b_index)

\* The scanner thread (pipeline.rs 223-246) is running.
ScannerRunning == caller_pc = "generating" /\ ~scan_done

\* `for item in token_iter`, read_line returned a line: one pass of the loop
\* of LogLineIter::next; an item it yields is tokenized (TokenIter) and sent,
\* a command to the builder, an error to the collector.  A send fails only
\* when the receiver is gone, and then the thread ends.
ScanLineOf(contents) ==
    /\ ScannerRunning
    /\ reader_state = "ok"
    /\ \E content \in contents :
         LET line == trim_end_matches(content \o <<"\n">>, {"\r", "\n"})
             r    == next_line(pending_command, line, file_extensions)
         IN  /\ pending_command' = r.pending
             /\ lines_read' = Append(lines_read, line)
             /\ acc_lines' = IF r.pending = None THEN <<>>
                             ELSE Append(acc_lines, line)
             /\ IF r.item = None
                THEN UNCHANGED <<token_ch, err_ch, scan_done, scan_sent>>
                ELSE IF r.item.value.kind = "Ok"
                THEN IF bld_pc # "done"
                     THEN /\ token_ch' = Append(token_ch,
                               tokenize_compile_command(r.item.value.command))
                          /\ UNCHANGED <<err_ch, scan_done, scan_sent>>
                     ELSE /\ scan_done' = TRUE
                          /\ UNCHANGED <<token_ch, err_ch, scan_sent>>
                ELSE IF col_pc # "done"
                     THEN /\ err_ch' = Append(err_ch, r.item.value)
                          /\ scan_sent' = sent_on(scan_sent, r.item.value)
                          /\ UNCHANGED <<token_ch, scan_done>>
                     ELSE /\ scan_done' = TRUE
                          /\ UNCHANGED <<token_ch, err_ch, scan_sent>>
    /\ UNCHANGED <<file_extensions, scan_out, read_errors>>
    /\ UNCHANGED <<log_reader, caller_pc, gen_calls, gen_runs, lookup_calls,
                   reader_state, cmd_ch, bld_pc, bld_events, col_pc, errors,
                   m_pc, compile_commands>>
    /\ UNCHANGED <<idxVars, buildVars,
                   tokVars, walkVars, lerrVars, bld_sent, mainVars>>

ScanLine ==
    /\ Len(lines_read) < MaxS2Lines
    /\ ScanLineOf(Stage2Lines)

\* read_line returned Err for one line (the line is lost, the reader reads
\* on): next() yields LogRead, which goes to the collector.
ScanReadFails ==
    /\ ScannerRunning
    /\ reader_state = "ok"
    /\ read_errors < MaxReadErrors
    /\ read_errors' = read_errors + 1
    /\ IF col_pc # "done"
       THEN /\ err_ch' = Append(err_ch, LogRead(log_path))
            /\ scan_sent' = sent_on(scan_sent, LogRead(log_path))
            /\ UNCHANGED scan_done
       ELSE /\ scan_done' = TRUE
            /\ UNCHANGED <<err_ch, scan_sent>>
    /\ UNCHANGED <<file_extensions, pending_command, scan_out, lines_read,
                   acc_lines>>
    /\ UNCHANGED <<log_reader, caller_pc, gen_calls, gen_runs, lookup_calls,
                   reader_state, token_ch, cmd_ch, bld_pc, bld_events, col_pc,
                   errors, m_pc, compile_commands>>
    /\ UNCHANGED <<idxVars, buildVars,
                   tokVars, walkVars, lerrVars, bld_sent, mainVars>>

\* read_line returns Err on the first call and on every later one (the
\* handle names a directory, the device fails): next() yields LogRead each
\* time and never None, so the `for` loop goes on.
ScanReaderBroken ==
    /\ ScannerRunning
    /\ reader_state = "broken" \/ (lines_read = <<>> /\ read_errors = 0)
    /\ Len(err_ch) < MaxInFlight
    /\ reader_state' = "broken"
    /\ IF col_pc # "done"
       THEN /\ err_ch' = Append(err_ch, LogRead(log_path))
            /\ scan_sent' = sent_on(scan_sent, LogRead(log_path))
            /\ UNCHANGED scan_done
       ELSE /\ scan_done' = TRUE
            /\ UNCHANGED <<err_ch, scan_sent>>
    /\ UNCHANGED <<file_extensions, pending_command, scan_out, lines_read,
                   acc_lines, read_errors>>
    /\ UNCHANGED <<log_reader, caller_pc, gen_calls, gen_runs, lookup_calls,
                   token_ch, cmd_ch, bld_pc, bld_events, col_pc, errors,
                   m_pc, compile_commands>>
    /\ UNCHANGED <<idxVars, buildVars,
                   tokVars, walkVars, lerrVars, bld_sent, mainVars>>

\* read_line returned Ok(0): next() returns None, the thread ends and its
\* senders are dropped.
ScanEof ==
    /\ ScannerRunning
    /\ reader_state = "ok"
    /\ scan_done' = TRUE
    /\ UNCHANGED <<file_extensions, pending_command, scan_out, lines_read,
                   acc_lines, read_errors>>
    /\ UNCHANGED s2Vars
    /\ UNCHANGED <<idxVars, buildVars,
                   tokVars, walkVars, lerrVars, sentVars, mainVars>>

ScannerThread == ScanEof \/ ScanReaderBroken \/ ScanReadFails \/ ScanLine

\* CommandBuilder::run: `for tokens in token_rx.iter()` received a vector.
BuilderRecv ==
    /\ bld_pc = "recv"
    /\ token_ch # <<>>
    /\ bld_events' = builder_events(b_index, Head(token_ch))
    /\ token_ch' = Tail(token_ch)
    /\ bld_pc' = IF builder_events(b_index, Head(token_ch)) = <<>>
                 THEN "recv" ELSE "send"
    /\ UNCHANGED <<log_reader, caller_pc, gen_calls, gen_runs, lookup_calls,
                   reader_state, cmd_ch, err_ch, col_pc, errors, m_pc,
                   compile_commands>>
    /\ UNCHANGED <<idxVars, scanVars, buildVars,
                   tokVars, walkVars, lerrVars, sentVars, mainVars>>

\* The inner loop: the next event goes to the command or the error channel;
\* a failed send makes run return.
BuilderSend ==
    /\ bld_pc = "send"
    /\ LET event == Head(bld_events)
           alive == IF event.kind = "Ok" THEN m_pc = "collecting"
                    ELSE col_pc # "done"
       IN  /\ cmd_ch' = IF event.kind = "Ok" /\ alive
                        THEN Append(cmd_ch, event.command) ELSE cmd_ch
           /\ err_ch' = IF event.kind # "Ok" /\ alive
                        THEN Append(err_ch, event) ELSE err_ch
           /\ bld_sent' = IF event.kind # "Ok" /\ alive
                          THEN sent_on(bld_sent, event) ELSE bld_sent
           /\ bld_events' = IF alive THEN Tail(bld_events) ELSE <<>>
           /\ bld_pc' = IF ~alive THEN "done"
                        ELSE IF Tail(bld_events) = <<>> THEN "recv"
                        ELSE "send"
    /\ UNCHANGED <<log_reader, caller_pc, gen_calls, gen_runs, lookup_calls,
                   reader_state, token_ch, col_pc, errors, m_pc,
                   compile_commands>>
    /\ UNCHANGED <<idxVars, scanVars, buildVars,
                   tokVars, walkVars, lerrVars, scan_sent, mainVars>>

\* token_rx.iter() ends: the channel is empty and every sender is dropped
\* (main dropped its own at line 248, the scanner's goes with its thread).
BuilderDone ==
    /\ bld_pc = "recv"
    /\ token_ch = <<>>
    /\ scan_done
    /\ bld_pc' = "done"
    /\ UNCHANGED <<log_reader, caller_pc, gen_calls, gen_runs, lookup_calls,
                   reader_state, token_ch, cmd_ch, err_ch, bld_events, col_pc,
                   errors, m_pc, compile_commands>>
    /\ UNCHANGED <<idxVars, scanVars, buildVars,
                   tokVars, walkVars, lerrVars, sentVars, mainVars>>

BuilderThread == BuilderRecv \/ BuilderSend \/ BuilderDone

\* The error collector (pipeline.rs 210-216): `for error in error_rx.iter()`.
CollectorRecv ==
    /\ col_pc = "run"
    /\ err_ch # <<>>
    /\ errors' = IF Len(errors) < ErrorsKept
                 THEN Append(errors, Head(err_ch)) ELSE errors
    /\ err_ch' = Tail(err_ch)
    /\ UNCHANGED <<log_reader, caller_pc, gen_calls, gen_runs, lookup_calls,
                   reader_state, token_ch, cmd_ch, bld_pc, bld_events, col_pc,
                   m_pc, compile_commands>>
    /\ UNCHANGED <<idxVars, scanVars, buildVars,
                   tokVars, walkVars, lerrVars, sentVars, mainVars>>

\* error_rx.iter() ends: empty, and the scanner's and the builder's senders
\* are dropped (main dropped its own at line 256).
CollectorDone ==
    /\ col_pc = "run"
    /\ err_ch = <<>>
    /\ scan_done
    /\ bld_pc = "done"
    /\ col_pc' = "done"
    /\ UNCHANGED <<log_reader, caller_pc, gen_calls, gen_runs, lookup_calls,
                   reader_state, token_ch, cmd_ch, err_ch, bld_pc, bld_events,
                   errors, m_pc, compile_commands>>
    /\ UNCHANGED <<idxVars, scanVars, buildVars,
                   tokVars, walkVars, lerrVars, sentVars, mainVars>>

CollectorThread == CollectorRecv \/ CollectorDone

\* run_database_stage, line 258: command_rx.iter().collect().
MainCollect ==
    /\ m_pc = "collecting"
    /\ cmd_ch # <<>>
    /\ compile_commands' = Append(compile_commands, Head(cmd_ch))
    /\ cmd_ch' = Tail(cmd_ch)
    /\ UNCHANGED <<log_reader, caller_pc, gen_calls, gen_runs, lookup_calls,
                   reader_state, token_ch, err_ch, bld_pc, bld_events, col_pc,
                   errors, m_pc>>
    /\ UNCHANGED <<idxVars, scanVars, buildVars,
                   tokVars, walkVars, lerrVars, sentVars, mainVars>>

\* The collect ends: the channel is empty and the builder's sender is gone.
MainCollected ==
    /\ m_pc = "collecting"
    /\ cmd_ch = <<>>
    /\ bld_pc = "done"
    /\ m_pc' = "joining"
    /\ UNCHANGED <<log_reader, caller_pc, gen_calls, gen_runs, lookup_calls,
                   reader_state, token_ch, cmd_ch, err_ch, bld_pc, bld_events,
                   col_pc, errors, compile_commands>>
    /\ UNCHANGED <<idxVars, scanVars, buildVars,
                   tokVars, walkVars, lerrVars, sentVars, mainVars>>

\* Lines 260-272: the three joins, then DatabaseResult is returned.
Stage2Return ==
    /\ m_pc = "joining"
    /\ scan_done
    /\ bld_pc = "done"
    /\ col_pc = "done"
    /\ m_pc' = "returned"
    /\ caller_pc' = "idle"
    /\ UNCHANGED <<log_reader, gen_calls, gen_runs, lookup_calls,
                   reader_state, token_ch, cmd_ch, err_ch, bld_pc, bld_events,
                   col_pc, errors, compile_commands>>
    /\ UNCHANGED <<idxVars, scanVars, buildVars,
                   tokVars, walkVars, lerrVars, sentVars, mainVars>>

MainThread == MainCollect \/ MainCollected \/ Stage2Return

NextStage2 ==
    \/ CallBuildLookupTree
    \/ CallGenerate
    \/ ScanLine
    \/ ScanReadFails
    \/ ScanReaderBroken
    \/ ScanEof
    \/ BuilderRecv
    \/ BuilderSend
    \/ BuilderDone
    \/ CollectorRecv
    \/ CollectorDone
    \/ MainCollect
    \/ MainCollected
    \/ Stage2Return

SpecStage2 == InitStage2 /\ [][NextStage2]_vars

\* The receive of CommandBuilder::run seen on the token channel alone: the
\* builder, waiting in `for tokens in token_rx.iter()`, takes the head of
\* the channel.  In SpecStage2 the steps that satisfy it are exactly the
\* BuilderRecv steps (no other action shortens token_ch while bld_pc is
\* "recv") and it is enabled exactly when BuilderRecv is, so fairness on it
\* is fairness on BuilderRecv, stated without evaluating assemble.
BuilderTakes ==
    /\ bld_pc = "recv"
    /\ token_ch # <<>>
    /\ token_ch' = Tail(token_ch)

\* Every thread of stage 2 that can take a step eventually takes one (OS
\* threads); what a read returns and when the caller calls is not scheduled.
\* The three steps of the builder thread exclude one another, so fairness
\* on the thread is fairness on each of them.
FairStage2 ==
    /\ SpecStage2
    /\ WF_vars(ScannerThread)
    /\ WF_token_ch(BuilderTakes)
    /\ WF_vars(BuilderSend \/ BuilderDone)
    /\ WF_vars(CollectorThread)
    /\ WF_vars(MainThread)

(***************************************************************************)
(* Stage 2: properties.                                                    *)
(***************************************************************************)
\* The complete invocations of a log: the commands the scanner's loop yields
\* from Idle over the lines, in order.
RECURSIVE Invocations(_, _)
Invocations(pending, lines) ==
    IF lines = <<>> THEN <<>>
    ELSE LET r == next_line(pending, Head(lines), file_extensions)
         IN  (IF r.item # None /\ r.item.value.kind = "Ok"
              THEN <<r.item.value.command>> ELSE <<>>)
             \o Invocations(r.pending, Tail(lines))

\* The records of the trailing files of one invocation that resolve.
RecordsOfInvocation(command) ==
    LET events == assemble(b_index, tokenize_compile_command(command))
        oks == SelectSeq(events, LAMBDA e : e.kind = "Ok")
    IN  [k \in 1..Len(oks) |-> oks[k].command]

RECURSIVE RecordsOfAll(_)
RecordsOfAll(commands) ==
    IF commands = <<>> THEN <<>>
    ELSE RecordsOfInvocation(Head(commands)) \o RecordsOfAll(Tail(commands))

ErrorKinds ==
    {IF "error" \in DOMAIN errors[i] THEN errors[i].error ELSE errors[i].kind :
        i \in 1..Len(errors)}

\* C18: when stage 2 has returned, compile_commands holds the record of every
\* trailing file that resolves of every complete invocation of the log that
\* was read, whatever errors the scanner and the resolver reported before.
C18_ErrorsNeverStopStage2 ==
    m_pc = "returned" =>
        SameBag(compile_commands, RecordsOfAll(Invocations(None, lines_read)))

\* C18 witness: the scanner reported UnexpectedLine, a later invocation was
\* complete, its first trailing file failed (MissingFoArgument) and its
\* second gave the record that was returned.
C18_Witness ==
    /\ m_pc = "returned"
    /\ lines_read = <<S2_start, S2_start, S2_two>>
    /\ {"UnexpectedLine", "MissingFoArgument"} \subseteq ErrorKinds
    /\ Len(compile_commands) = 1
    /\ compile_commands[1].file = T_a

\* C19: the reader is taken exactly once.  The first generate call takes it
\* and runs the stage; a later call finds the slot empty, panics and runs
\* nothing; a build_lookup_tree call leaves the slot as it is.
C19_ReaderTakenOnce ==
    /\ [](/\ gen_runs = (IF gen_calls >= 1 THEN 1 ELSE 0)
          /\ (log_reader = "None") <=> (gen_calls >= 1)
          /\ (caller_pc = "panicked") <=> (gen_calls >= 2))
    /\ [][lookup_calls' # lookup_calls =>
            (log_reader' = log_reader /\ gen_runs' = gen_runs)]_vars

\* C19 witness: build_lookup_tree was called, the first generate call ran
\* the stage to its return, and a second generate call panicked.
C19_Witness ==
    /\ lookup_calls >= 1
    /\ gen_calls = 2
    /\ gen_runs = 1
    /\ m_pc = "returned"
    /\ caller_pc = "panicked"
    /\ log_reader = "None"

\* C20 (as claimed): under fair scheduling every generate_compile_commands
\* call that runs the stage eventually returns, with the scanner, the
\* builder and the error collector finished.
C20_GenerateReturns ==
    [](caller_pc = "generating" =>
         <>(/\ m_pc = "returned"
            /\ scan_done
            /\ bld_pc = "done"
            /\ col_pc = "done"))

(***************************************************************************)
(* The two phases in sequence, as the callers of PipelineCoordinator run   *)
(* them (pipeline.rs 342-347): build_lookup_tree over a source directory,  *)
(* then generate_compile_commands on the index it returned.  The disk is   *)
(* DiskFiles; the walker sees the part of it below the source directory.   *)
(***************************************************************************)
MaxPipelineLines == 2

PipelineRoots == {<<"/", "s">>, <<"/", "o">>}

PipelineTrees ==
    {{f \in DiskFiles : starts_with(f, root \o <<"/">>)} :
        root \in PipelineRoots}

\* The invocation of the compiler on one file, on one line.
InvocationOf(name) == S_cl \o SP \o S_c \o SP \o name

\* One invocation on two files.
T_e == <<"e", ".", "c">>
L_two_files == InvocationOf(T_b) \o SP \o T_e

PipelineLines == {InvocationOf(T_a), InvocationOf(T_b), L_two_files}

InitPipeline ==
    /\ fs \in PipelineTrees
    /\ to_walk = fs
    /\ entry_ch = <<>>
    /\ walker_done = FALSE
    /\ wpc = [w \in Workers |-> "recv"]
    /\ held = [w \in Workers |-> <<>>]
    /\ file_index = EmptyIndex
    /\ emitted = <<>>
    /\ applied = <<>>
    /\ main_pc = "joining"
    /\ lookup = NoLookup
    /\ ix_err_left \in 0..MaxWalkErrors
    /\ ix_err_ch = <<>>
    /\ ix_col_pc = "run"
    /\ ix_errors = <<>>
    /\ ix_err_sent = <<>>
    /\ file_extensions = <<E_c>>
    /\ pending_command = None
    /\ scan_out = <<>>
    /\ scan_done = FALSE
    /\ lines_read = <<>>
    /\ acc_lines = <<>>
    /\ read_errors = 0
    /\ BuildIdle
    /\ Stage2Idle
    /\ TokIdle
    /\ WalkIdle
    /\ MainIdle

\* generate_compile_commands(Arc::clone(&lookup.file_index)), called once,
\* after build_lookup_tree has returned.
PipelineGenerate ==
    /\ main_pc = "returned"
    /\ gen_calls = 0
    /\ Generate(file_index)

\* The reads of the log so far, those that failed included.
PipelineReads == Len(lines_read) + read_errors

\* The log is read at most MaxPipelineLines times before its end.
PipelineScanLine ==
    /\ PipelineReads < MaxPipelineLines
    /\ ScanLineOf(PipelineLines)

PipelineReadFails ==
    /\ PipelineReads < MaxPipelineLines
    /\ ScanReadFails

NextPipeline ==
    \/ WalkerSend
    \/ WalkerSendError
    \/ WalkerFinish
    \/ LookupCollectorRecv
    \/ LookupCollectorDone
    \/ \E w \in Workers : WorkerRecv(w)
    \/ \E w \in Workers : WorkerInsert(w)
    \/ \E w \in Workers : WorkerDisconnected(w)
    \/ \E w \in Workers : WorkerTimeout(w)
    \/ MainReturn
    \/ PipelineGenerate
    \/ PipelineScanLine
    \/ PipelineReadFails
    \/ ScanEof
    \/ BuilderRecv
    \/ BuilderSend
    \/ BuilderDone
    \/ CollectorRecv
    \/ CollectorDone
    \/ MainCollect
    \/ MainCollected
    \/ Stage2Return

SpecPipeline == InitPipeline /\ [][NextPipeline]_vars

(***************************************************************************)
(* The two phases: properties.                                             *)
(***************************************************************************)
\* es is a merge of a and b: every element of a and of b once, each of the
\* two in its own order.
RECURSIVE Interleaves(_, _, _)
Interleaves(es, a, b) ==
    IF es = <<>> THEN a = <<>> /\ b = <<>>
    ELSE \/ a # <<>> /\ Head(a) = Head(es)
                     /\ Interleaves(Tail(es), Tail(a), b)
         \/ b # <<>> /\ Head(b) = Head(es)
                     /\ Interleaves(Tail(es), a, Tail(b))

\* C30: the list a phase returns holds every error a thread of the phase
\* sent, each once, those of one thread in the order it sent them: in
\* stage 1 the walker's, in stage 2 a merge of the scanner's and the
\* builder's.
C30_EveryErrorCollectedOnce ==
    /\ main_pc = "returned" => ix_errors = ix_err_sent
    /\ m_pc = "returned" => Interleaves(errors, scan_sent, bld_sent)

\* C30 witness: both phases have returned, the walker having sent two
\* different errors, the builder two and the scanner one.
C30_Witness ==
    /\ main_pc = "returned"
    /\ m_pc = "returned"
    /\ Len(ix_err_sent) = 2
    /\ ix_err_sent[1] # ix_err_sent[2]
    /\ Len(bld_sent) = 2
    /\ Len(scan_sent) = 1

\* C36: when stage 2 has returned, compile_commands is the records of the
\* complete invocations of the log in the order in which the invocations
\* complete, those of one invocation together and in the order of its
\* source arguments, whatever the interleaving of the threads was.
C36_RecordsInLogOrder ==
    m_pc = "returned" =>
        compile_commands = RecordsOfAll(Invocations(None, lines_read))

\* C36 witness: an invocation on two files and a later one on the first of
\* them gave three records in that order.
C36_Witness ==
    /\ m_pc = "returned"
    /\ lines_read = <<L_two_files, InvocationOf(T_b)>>
    /\ Len(compile_commands) = 3
    /\ compile_commands[1].file = T_b
    /\ compile_commands[2].file = T_e
    /\ compile_commands[3].arguments = <<S_cl, S_c, T_b>>

\* The file of the tree with the given name, if exactly one has it.
FilesNamed(name) == {f \in fs : path_file_name(f) = Some(name)}

\* The run the end-to-end scenario describes: the log was one line, the
\* invocation of the compiler on the bare name, read without failure to its
\* end, and the walk of the tree met no failure.
ScenarioRan(name) ==
    /\ m_pc = "returned"
    /\ Cardinality(FilesNamed(name)) = 1
    /\ lines_read = <<InvocationOf(name)>>
    /\ read_errors = 0
    /\ ix_err_sent = <<>>

ScenarioResult(name) ==
    /\ ix_errors = <<>>
    /\ errors = <<>>
    /\ compile_commands =
         <<[file |-> name,
            directory |-> to_lowercase(
                path_parent(CHOOSE f \in FilesNamed(name) : TRUE).value),
            arguments |-> <<S_cl, S_c, name>>]>>

\* C21 (as claimed): a tree in which a name occurs under one directory and
\* a log of one single-line invocation naming it give no errors and the one
\* record of that file.
C21_EndToEnd ==
    \A name \in {T_a, T_b} : ScenarioRan(name) => ScenarioResult(name)

\* The same for the runs in which every path the walker sent reached the
\* index.
EndToEndWhenEveryPathApplied ==
    \A name \in {T_a, T_b} :
        (ScenarioRan(name) /\ Range(applied) = Range(emitted))
            => ScenarioResult(name)

\* The scenario does occur with its result.
ScenarioSucceeds == ScenarioRan(T_a) /\ ScenarioResult(T_a)

(***************************************************************************)
(* The regex-based converter (main.rs).                                    *)
(* Its paths are Windows paths: "\" and "/" separate components and a path *)
(* is absolute when it starts with a drive letter, ":" and a separator.    *)
(* The model's paths are drive-absolute or plain relative ones.  A u32 is  *)
(* kept as its decimal digits without leading zeros.                       *)
(***************************************************************************)
MaxMainLines == 3

DigitChars == <<"0", "1", "2", "3", "4", "5", "6", "7", "8", "9">>
U32MaxDigits == <<"4", "2", "9", "4", "9", "6", "7", "2", "9", "5">>

is_digit(c) == \E i \in 1..10 : DigitChars[i] = c
DigitValue(c) == (CHOOSE i \in 1..10 : DigitChars[i] = c) - 1
is_letter(c) == \E i \in 1..26 : LowerChars[i] = LowerChar(c)

UpperChar(c) ==
    IF \E i \in 1..Len(LowerChars) : LowerChars[i] = c
    THEN UpperChars[CHOOSE i \in 1..Len(LowerChars) : LowerChars[i] = c]
    ELSE c

to_uppercase(s) == [i \in 1..Len(s) |-> UpperChar(s[i])]

\* Digit strings of one length compare as their numbers do.
RECURSIVE digits_leq(_, _)
digits_leq(a, b) ==
    IF a = <<>> THEN TRUE
    ELSE IF a[1] # b[1] THEN DigitValue(a[1]) < DigitValue(b[1])
    ELSE digits_leq(Tail(a), Tail(b))

\* str::parse::<u32> of a string of ASCII digits: fails on overflow.
parse_u32(ds) ==
    LET stripped == trim_start_matches(ds, {"0"})
        canon    == IF stripped = <<>> THEN <<"0">> ELSE stripped
    IN  IF ds = <<>> \/ \E i \in 1..Len(ds) : ~is_digit(ds[i]) THEN None
        ELSE IF Len(canon) < Len(U32MaxDigits) THEN Some(canon)
        ELSE IF Len(canon) = Len(U32MaxDigits)
                /\ digits_leq(canon, U32MaxDigits) THEN Some(canon)
        ELSE None

\* The literal lit stands in s at position i.
MatchAt(s, i, lit) ==
    /\ i >= 1
    /\ i + Len(lit) - 1 <= Len(s)
    /\ SubSeq(s, i, i + Len(lit) - 1) = lit

\* The first position from i on whose character is outside set.
SkipWhile(s, i, set) ==
    LET stops == {j \in i..Len(s) : s[j] \notin set}
    IN  IF stops = {} THEN Len(s) + 1 ELSE SetMin(stops)

\* The first position from i on that holds character c, 0 when none does.
NextPos(s, i, c) ==
    LET at == {j \in i..Len(s) : s[j] = c}
    IN  IF at = {} THEN 0 ELSE SetMin(at)

DigitSet == {DigitChars[i] : i \in 1..10}

\* `\d+(?::\d+)?` at position i: the digits, and the position after the
\* group; none when no digit stands at i.
MatchNumber(s, i) ==
    LET j == SkipWhile(s, i, DigitSet)
        k == IF j <= Len(s) /\ s[j] = ":"
                /\ SkipWhile(s, j + 1, DigitSet) > j + 1
             THEN SkipWhile(s, j + 1, DigitSet)
             ELSE j
    IN  IF j > i THEN Some([num |-> SubSeq(s, i, j - 1), after |-> k])
        ELSE None

\* `"([^"]+\.vcxproj)"` with the opening quote at position i - 1: the text
\* up to the next quote, which must end in .vcxproj after one character.
MatchVcxproj(s, i) ==
    LET q    == NextPos(s, i, "\"")
        text == SubSeq(s, i, q - 1)
        ext  == <<".", "v", "c", "x", "p", "r", "o", "j">>
    IN  IF q > 0 /\ Len(text) > Len(ext)
           /\ SubSeq(text, Len(text) - Len(ext) + 1, Len(text)) = ext
        THEN Some([path |-> text, after |-> q + 1])
        ELSE None

\* `^\s*(\d+)(?::\d+)?>`
node_prefix_pattern(line) ==
    LET i == SkipWhile(line, 1, WhiteSpace)
        n == MatchNumber(line, i)
    IN  IF n # None /\ MatchAt(line, n.value.after, <<">">>)
        THEN Some([num |-> n.value.num, after |-> n.value.after + 1])
        ELSE None

\* `^\s*(\d+)(?::\d+)?>Project "([^"]+\.vcxproj)" on node \d+`
project_on_node_pattern(line) ==
    LET pre == node_prefix_pattern(line)
        lit == <<"P", "r", "o", "j", "e", "c", "t", " ", "\"">>
        at  == IF pre = None THEN 0 ELSE pre.value.after
        prj == IF pre # None /\ MatchAt(line, at, lit)
               THEN MatchVcxproj(line, at + Len(lit)) ELSE None
        on  == <<" ", "o", "n", " ", "n", "o", "d", "e", " ">>
    IN  IF prj # None /\ MatchAt(line, prj.value.after, on)
           /\ MatchNumber(line, prj.value.after + Len(on)) # None
        THEN Some([num |-> pre.value.num, path |-> prj.value.path])
        ELSE None

\* The pattern of a nested project, matched piece by piece from the end:
\* `\) on node \d+` after the child's number n.
nested_on_node(line, n, path) ==
    LET on == <<")", " ", "o", "n", " ", "n", "o", "d", "e", " ">>
    IN  IF n # None /\ MatchAt(line, n.value.after, on)
           /\ MatchNumber(line, n.value.after + Len(on)) # None
        THEN Some([num |-> n.value.num, path |-> path])
        ELSE None

\* ` \((\d+)(?::\d+)?` after the child's path.
nested_child_number(line, prj) ==
    LET paren == <<" ", "(">>
    IN  IF MatchAt(line, prj.after, paren)
        THEN nested_on_node(line, MatchNumber(line, prj.after + Len(paren)),
                            prj.path)
        ELSE None

\* `([^"]+\.vcxproj)"` at position i.
nested_child(line, i) ==
    IF MatchVcxproj(line, i) = None THEN None
    ELSE nested_child_number(line, MatchVcxproj(line, i).value)

\* `" \([^\)]+\) is building "` from the closing quote of the parent, at
\* position q.
nested_parent(line, q) ==
    LET open  == <<"\"", " ", "(">>
        build == <<")", " ", "i", "s", " ", "b", "u", "i", "l", "d", "i", "n",
            "g", " ", "\"">>
        close == IF MatchAt(line, q, open)
                 THEN NextPos(line, q + Len(open), ")") ELSE 0
    IN  IF close > q + Len(open) /\ MatchAt(line, close, build)
        THEN nested_child(line, close + Len(build))
        ELSE None

\* `^\s*\d+(?::\d+)?>Project "[^"]*" \([^\)]+\) is building
\*  "([^"]+\.vcxproj)" \((\d+)(?::\d+)?\) on node \d+`
nested_project_pattern(line) ==
    LET pre == node_prefix_pattern(line)
        lit == <<"P", "r", "o", "j", "e", "c", "t", " ", "\"">>
    IN  IF pre # None /\ MatchAt(line, pre.value.after, lit)
           /\ NextPos(line, pre.value.after + Len(lit), "\"") > 0
        THEN nested_parent(line,
                           NextPos(line, pre.value.after + Len(lit), "\""))
        ELSE None

\* `from project "([^"]+\.vcxproj)"`, anywhere in the line: the leftmost
\* match.
from_project_pattern(line) ==
    LET lit  == <<"f", "r", "o", "m", " ", "p", "r", "o", "j", "e", "c", "t",
        " ", "\"">>
        hits == {i \in 1..Len(line) :
                    /\ MatchAt(line, i, lit)
                    /\ MatchVcxproj(line, i + Len(lit)) # None}
    IN  IF hits = {} THEN None
        ELSE Some([path |->
                     MatchVcxproj(line, SetMin(hits) + Len(lit)).value.path])

\* `^\s+.*CL\.exe\s`
compile_command_pattern(line) ==
    LET lit == <<"C", "L", ".", "e", "x", "e">>
    IN  /\ line # <<>>
        /\ line[1] \in WhiteSpace
        /\ \E i \in 2..Len(line) :
              /\ MatchAt(line, i, lit)
              /\ i + Len(lit) <= Len(line)
              /\ line[i + Len(lit)] \in WhiteSpace

\* `(?i)([A-Z]:[^\r\n]*?\\CL\.exe|"[^"]*\\CL\.exe")`, Regex::find: the
\* leftmost match; from a drive letter the shortest one.
cl_exe_regex(line) ==
    LET low   == to_lowercase(line)
        lit   == <<"\\", "c", "l", ".", "e", "x", "e">>
        drive(i) ==
            LET ends == {j \in (i + 2)..Len(line) : MatchAt(low, j, lit)}
            IN  IF is_letter(line[i]) /\ MatchAt(line, i + 1, <<":">>)
                   /\ ends # {}
                THEN SetMin(ends) + Len(lit) - 1 ELSE 0
        quoted(i) ==
            LET q == IF line[i] = "\"" THEN NextPos(line, i + 1, "\"")
                     ELSE 0
            IN  IF q > 0 /\ q - Len(lit) > i /\ MatchAt(low, q - Len(lit), lit)
                THEN q ELSE 0
        last(i) == IF drive(i) > 0 THEN drive(i) ELSE quoted(i)
        hits  == {i \in 1..Len(line) : last(i) > 0}
    IN  IF hits = {} THEN None
        ELSE Some(SubSeq(line, SetMin(hits), last(SetMin(hits))))

\* tokenize_command_line: a quote toggles the quoted state and stays in
\* the token; a space or a tab outside quotes ends the token.
RECURSIVE tokenize_from(_, _, _, _, _)
tokenize_from(line, i, current_token, in_quotes, tokens) ==
    IF i > Len(line)
    THEN IF current_token # <<>> THEN Append(tokens, current_token)
         ELSE tokens
    ELSE IF line[i] = "\""
    THEN tokenize_from(line, i + 1, Append(current_token, line[i]),
                       ~in_quotes, tokens)
    ELSE IF line[i] \in {" ", "\t"} /\ ~in_quotes
    THEN tokenize_from(line, i + 1, <<>>, in_quotes,
                       IF current_token # <<>>
                       THEN Append(tokens, current_token) ELSE tokens)
    ELSE tokenize_from(line, i + 1, Append(current_token, line[i]),
                       in_quotes, tokens)

tokenize_command_line(line) == tokenize_from(line, 1, <<>>, FALSE, <<>>)

should_filter_flag(flag) ==
    LET flag_upper == to_uppercase(flag)
    IN  \/ starts_with(flag_upper, <<"/", "Y", "C">>)
        \/ starts_with(flag_upper, <<"/", "Y", "U">>)
        \/ /\ starts_with(flag_upper, <<"/", "F", "P">>)
           /\ ~starts_with(flag_upper, <<"/", "F", "P", ":">>)

is_source_file(token) ==
    LET token_lower == to_lowercase(trim_matches(token, {"\""}))
    IN  \/ ends_with(token_lower, <<".", "c">>)
        \/ ends_with(token_lower, <<".", "c", "p", "p">>)
        \/ ends_with(token_lower, <<".", "c", "c">>)
        \/ ends_with(token_lower, <<".", "c", "x", "x">>)

\* The path of an include flag without its trailing backslashes; a root
\* such as C:\ is kept.
clean_include_dir(path) ==
    IF Len(path) = 3 /\ ends_with(path, <<":", "\\">>) THEN path
    ELSE trim_end_matches(path, {"\\"})

clean_include_path(flag) ==
    LET flag_upper == to_uppercase(flag)
        quotes     == Positions(flag, "\"")
    IN  IF ~starts_with(flag_upper, <<"/", "I">>) THEN flag
        ELSE IF starts_with(flag_upper, <<"/", "I", "\"">>)
        THEN IF SetMax(quotes) > 4
             THEN SubSeq(flag, 1, 3)
                  \o clean_include_dir(SubSeq(flag, 4, SetMax(quotes) - 1))
                  \o SubSeq(flag, SetMax(quotes), Len(flag))
             ELSE flag
        ELSE IF Len(flag) > 2
        THEN SubSeq(flag, 1, 2) \o clean_include_dir(SubSeq(flag, 3, Len(flag)))
        ELSE flag

\* Windows paths.
PathSeparators == {"\\", "/"}

RECURSIVE split_any(_, _)
split_any(s, set) ==
    LET at == {i \in 1..Len(s) : s[i] \in set}
    IN  IF at = {} THEN <<s>>
        ELSE <<SubSeq(s, 1, SetMin(at) - 1)>>
             \o split_any(SubSeq(s, SetMin(at) + 1, Len(s)), set)

\* Path::is_absolute: a drive prefix followed by a root.
win_is_absolute(p) ==
    /\ Len(p) >= 3
    /\ is_letter(p[1])
    /\ p[2] = ":"
    /\ p[3] \in PathSeparators

\* Path::components: the prefix and the root, then the normal components;
\* repeated separators and "." components do not count.
win_components(p) ==
    SelectSeq(split_any(p, PathSeparators),
              LAMBDA x : x # <<>> /\ x # <<".">>)

RECURSIVE join_with(_, _)
join_with(cs, sep) ==
    IF cs = <<>> THEN <<>>
    ELSE IF Len(cs) = 1 THEN cs[1]
    ELSE cs[1] \o sep \o join_with(Tail(cs), sep)

\* normalize_path(path).display().to_string(): the path rebuilt from its
\* components.
path_to_normalized_string(p) ==
    LET cs == win_components(p)
    IN  IF win_is_absolute(p)
        THEN cs[1] \o <<"\\">> \o join_with(Tail(cs), <<"\\">>)
        ELSE join_with(cs, <<"\\">>)

\* Path::parent, as a normalized path: none for a root or an empty path.
win_parent(p) ==
    LET cs == win_components(p)
    IN  IF cs = <<>> \/ (win_is_absolute(p) /\ Len(cs) = 1) THEN None
        ELSE IF win_is_absolute(p)
        THEN Some(cs[1] \o <<"\\">> \o join_with(Tail(Front(cs)), <<"\\">>))
        ELSE Some(join_with(Front(cs), <<"\\">>))

\* Path::join: an absolute argument replaces the path.
win_join(base, x) ==
    IF win_is_absolute(x) THEN x
    ELSE IF base = <<>> THEN x
    ELSE IF Last(base) \in PathSeparators THEN base \o x
    ELSE base \o <<"\\">> \o x

\* The ProjectContext the three project handlers build from a capture.
ProjectContext(path) ==
    [project_path |-> path_to_normalized_string(path),
     project_dir  |-> IF win_parent(path) = None THEN <<".">>
                      ELSE win_parent(path).value]

resolve_source_file_path(source_file, working_directory) ==
    LET file_path == trim_matches(source_file, {"\""})
    IN  IF win_is_absolute(file_path) THEN file_path
        ELSE win_join(working_directory, file_path)

CompileCommand(directory, command, file) ==
    [directory |-> directory, command |-> command, file |-> file]

\* parse_cl_command: Err when the line holds no path to CL.exe, else one
\* CompileCommand per source file named after CL.exe.
parse_cl_command(line, project_ctx) ==
    LET cl_exe_match == cl_exe_regex(line)
        tokens       == tokenize_command_line(line)
        cl_positions == {i \in 1..Len(tokens) :
                           contains(to_uppercase(tokens[i]), <<"C", "L", ".",
                               "E", "X", "E">>)}
    IN  IF cl_exe_match = None \/ cl_positions = {}
        THEN Err("CL.exe not found in command line")
        ELSE LET cl_exe_path == trim_matches(cl_exe_match.value, {"\""})
                 after == SubSeq(tokens, SetMin(cl_positions) + 1,
                                 Len(tokens))
                 source_files == SelectSeq(after, is_source_file)
                 kept == SelectSeq(after, LAMBDA t :
                            ~is_source_file(t) /\ ~should_filter_flag(t))
                 filtered_args ==
                     [i \in 1..Len(kept) |-> clean_include_path(kept[i])]
                 cl_exe_token ==
                     IF \E i \in 1..Len(cl_exe_path) : cl_exe_path[i] = " "
                     THEN <<"\"">> \o cl_exe_path \o <<"\"">>
                     ELSE cl_exe_path
                 base_command ==
                     join_with(<<cl_exe_token>> \o filtered_args, <<" ">>)
                 normalized_file(f) ==
                     path_to_normalized_string(
                         resolve_source_file_path(f,
                                                  project_ctx.project_dir))
             IN  [kind |-> "Ok",
                  commands |->
                    [i \in 1..Len(source_files) |->
                       CompileCommand(
                         path_to_normalized_string(project_ctx.project_dir),
                         base_command \o <<" ", "\"">>
                           \o normalized_file(source_files[i]) \o <<"\"">>,
                         normalized_file(source_files[i]))]]

\* ProcessingState, as a record.
ProcessingState(map, project, prefix) ==
    [prefix_to_project |-> map, current_project |-> project,
     current_prefix |-> prefix]

\* HashMap::insert
map_insert(map, key, value) ==
    [k \in DOMAIN map \cup {key} |-> IF k = key THEN value ELSE map[k]]

\* Variant: no fallback to current_project when the prefix is unmapped.
get_active_project_no_fallback(state) ==
    IF state.current_prefix # None
    THEN IF state.current_prefix.value \in DOMAIN state.prefix_to_project
         THEN Some(state.prefix_to_project[state.current_prefix.value])
         ELSE None
    ELSE state.current_project

\* prefix_to_project.get(&prefix).or(current_project.as_ref()) when a
\* prefix is set, current_project.as_ref() otherwise.
get_active_project(state) ==
    IF state.current_prefix # None
    THEN IF state.current_prefix.value \in DOMAIN state.prefix_to_project
         THEN Some(state.prefix_to_project[state.current_prefix.value])
         ELSE state.current_project
    ELSE state.current_project

\* Variant: a line without a node prefix clears current_prefix.
handle_node_prefix_clears(line, state) ==
    LET caps == node_prefix_pattern(line)
    IN  IF caps # None /\ parse_u32(caps.value.num) # None
        THEN [state EXCEPT !.current_prefix = parse_u32(caps.value.num)]
        ELSE [state EXCEPT !.current_prefix = None]

\* The prefix is taken only from a match whose number parses as a u32.
handle_node_prefix(line, state) ==
    LET caps == node_prefix_pattern(line)
    IN  IF caps # None /\ parse_u32(caps.value.num) # None
        THEN [state EXCEPT !.current_prefix = parse_u32(caps.value.num)]
        ELSE state

\* What handle_project_on_node and handle_nested_project do with their
\* captures: a number that does not parse is an Err, which the caller logs.
assign_project(caps, state) ==
    IF caps = None \/ parse_u32(caps.value.num) = None THEN state
    ELSE [state EXCEPT
            !.prefix_to_project =
                map_insert(@, parse_u32(caps.value.num).value,
                           ProjectContext(caps.value.path)),
            !.current_project = Some(ProjectContext(caps.value.path))]

handle_project_on_node(line, state) ==
    assign_project(project_on_node_pattern(line), state)

handle_nested_project(line, state) ==
    assign_project(nested_project_pattern(line), state)

handle_from_project(line, state) ==
    LET caps == from_project_pattern(line)
    IN  IF caps = None THEN state
        ELSE [state EXCEPT
                !.current_project = Some(ProjectContext(caps.value.path))]

\* The commands of a CL.exe line: none when the line is no compile
\* command, when no project is active or when parse_cl_command fails.
handle_cl_command(line, state) ==
    IF ~compile_command_pattern(line) THEN <<>>
    ELSE LET project_ctx == get_active_project(state)
         IN  IF project_ctx = None THEN <<>>
             ELSE LET parsed == parse_cl_command(line, project_ctx.value)
                  IN  IF parsed.kind = "Ok" THEN parsed.commands ELSE <<>>

\* The body of the loop of process_msbuild_log for one line that was read.
process_line(line, state) ==
    LET s1 == handle_node_prefix(line, state)
        s2 == handle_project_on_node(line, s1)
        s3 == handle_nested_project(line, s2)
        s4 == handle_from_project(line, s3)
    IN  [state |-> s4, commands |-> handle_cl_command(line, s4)]

(***************************************************************************)
(* The lines of the log: two projects, prefixes 1 (assigned by the         *)
(* project-on-node line), 2 (assigned by the nested-project line), 3       *)
(* (never assigned) and one that is no u32; CL.exe lines without and with  *)
(* a prefix, one of them naming a file twice.                              *)
(***************************************************************************)
L_on_node  == <<"1", ">", "P", "r", "o", "j", "e", "c", "t", " ", "\"", "C",
    ":", "\\", "p", "\\", "a", ".", "v", "c", "x", "p", "r", "o", "j", "\"",
    " ", "o", "n", " ", "n", "o", "d", "e", " ", "1">>
L_nested   == <<"1", ">", "P", "r", "o", "j", "e", "c", "t", " ", "\"", "C",
    ":", "\\", "p", "\\", "a", ".", "v", "c", "x", "p", "r", "o", "j", "\"",
    " ", "(", "1", ")", " ", "i", "s", " ", "b", "u", "i", "l", "d", "i", "n",
    "g", " ", "\"", "C", ":", "\\", "q", "\\", "b", ".", "v", "c", "x", "p",
    "r", "o", "j", "\"", " ", "(", "2", ")", " ", "o", "n", " ", "n", "o",
    "d", "e", " ", "1">>
L_from     == <<"B", "u", "i", "l", "d", " ", "f", "r", "o", "m", " ", "p",
    "r", "o", "j", "e", "c", "t", " ", "\"", "C", ":", "\\", "q", "\\", "b",
    ".", "v", "c", "x", "p", "r", "o", "j", "\"">>
L_prefix3  == <<"3", ":", "7", ">", "C", "l", "C", "o", "m", "p", "i", "l",
    "e", ":">>
L_no_u32   == <<"4", "2", "9", "4", "9", "6", "7", "2", "9", "6", ">", "C",
    "l", "C", "o", "m", "p", "i", "l", "e", ":">>
L_cl       == <<" ", " ", "C", ":", "\\", "t", "\\", "C", "L", ".", "e", "x",
    "e", " ", "/", "c", " ", "/", "Y", "u", "p", "c", "h", ".", "h", " ", "m",
    ".", "c">>
L_cl_twice == <<" ", " ", "C", ":", "\\", "v", " ", "c", "\\", "C", "L", ".",
    "e", "x", "e", " ", "/", "I", "\"", "C", ":", "\\", "i", "\\", "\\", "\"",
    " ", "m", ".", "c", " ", "\"", "u", ".", "c", "\"", " ", "m", ".", "c">>
L_cl_pre   == <<" ", " ", "2", ">", "C", ":", "\\", "t", "\\", "C", "L", ".",
    "e", "x", "e", " ", "/", "c", " ", "m", ".", "c">>
L_cl_bare  == <<" ", " ", "C", "L", ".", "e", "x", "e", " ", "/", "c", " ",
    "m", ".", "c">>

MsbuildLines == {L_on_node, L_nested, L_from, L_prefix3, L_no_u32,
                 L_cl, L_cl_twice, L_cl_pre, L_cl_bare}

MainState ==
    ProcessingState(prefix_to_project, current_project, current_prefix)

MainReads == Len(log_lines) + log_read_failures

InitMain ==
    /\ MainIdle
    /\ IndexIdle
    /\ ScanIdle
    /\ BuildIdle
    /\ Stage2Idle
    /\ TokIdle
    /\ WalkIdle

\* One pass of the loop on a line that was read: the five handlers in
\* order, then the commands of the line are counted and collected.
ProcessLine ==
    /\ ~log_done
    /\ MainReads < MaxMainLines
    /\ \E line \in MsbuildLines :
         \E r \in {process_line(line, MainState)} :
             /\ prefix_to_project' = r.state.prefix_to_project
             /\ current_project' = r.state.current_project
             /\ current_prefix' = r.state.current_prefix
             /\ command_count' = command_count + Len(r.commands)
             /\ log_commands' = log_commands \o r.commands
             /\ log_lines' = Append(log_lines, line)
    /\ UNCHANGED <<log_done, log_read_failures>>
    /\ UNCHANGED <<idxVars, scanVars, buildVars, s2Vars, tokVars, walkVars,
                   lerrVars, sentVars>>

\* A line that fails to be read is logged and skipped.
LineReadFails ==
    /\ ~log_done
    /\ MainReads < MaxMainLines
    /\ log_read_failures' = log_read_failures + 1
    /\ UNCHANGED <<prefix_to_project, current_project, current_prefix,
                   command_count, log_commands, log_done, log_lines>>
    /\ UNCHANGED <<idxVars, scanVars, buildVars, s2Vars, tokVars, walkVars,
                   lerrVars, sentVars>>

\* The end of the log: process_msbuild_log returns Ok(compile_commands).
LogEnds ==
    /\ ~log_done
    /\ log_done' = TRUE
    /\ UNCHANGED <<prefix_to_project, current_project, current_prefix,
                   command_count, log_commands, log_lines, log_read_failures>>
    /\ UNCHANGED <<idxVars, scanVars, buildVars, s2Vars, tokVars, walkVars,
                   lerrVars, sentVars>>

NextMain == ProcessLine \/ LineReadFails \/ LogEnds

SpecMain == InitMain /\ [][NextMain]_vars

(***************************************************************************)
(* The regex-based converter: properties.                                  *)
(***************************************************************************)
PrefixIsMapped ==
    /\ current_prefix # None
    /\ current_prefix.value \in DOMAIN prefix_to_project

\* C31: get_active_project returns the project mapped to current_prefix
\* when there is such a mapping; it returns current_project when a prefix
\* is set but unmapped and when no prefix is set; and it returns none only
\* when there is neither a mapping for the prefix nor a current project.
C31_ActiveProject ==
    LET active == get_active_project(MainState)
    IN  /\ PrefixIsMapped =>
              active = Some(prefix_to_project[current_prefix.value])
        /\ (current_prefix # None /\ ~PrefixIsMapped) =>
              active = current_project
        /\ current_prefix = None => active = current_project
        /\ active = None => (~PrefixIsMapped /\ current_project = None)

\* A CL.exe line was attributed to current_project while a prefix without
\* a mapping was set.
C31_Witness ==
    /\ current_prefix # None
    /\ ~PrefixIsMapped
    /\ current_project # None
    /\ log_lines # <<>>
    /\ compile_command_pattern(Last(log_lines))
    /\ log_commands # <<>>
    /\ Last(log_commands).directory
         = path_to_normalized_string(current_project.value.project_dir)

\* C32: the list process_msbuild_log returns holds at most one entry per
\* source file path: no two entries have the same file value.
C32_OneEntryPerFile ==
    log_done =>
        \A i, j \in 1..Len(log_commands) :
            i # j => log_commands[i].file # log_commands[j].file

\* The number the program reads from the node prefix of a line, none when
\* the line has no prefix or its number is no u32.
line_prefix(line) ==
    LET caps == node_prefix_pattern(line)
    IN  IF caps = None THEN None ELSE parse_u32(caps.value.num)

RECURSIVE most_recent_prefix(_)
most_recent_prefix(lines) ==
    IF lines = <<>> THEN None
    ELSE IF line_prefix(Last(lines)) # None THEN line_prefix(Last(lines))
    ELSE most_recent_prefix(Front(lines))

\* The project of the most recent prefix of the lines, or the given
\* current project when that prefix is unmapped.
ProjectOfMostRecentPrefix(lines, map, project) ==
    LET p == most_recent_prefix(lines)
    IN  IF p # None /\ p.value \in DOMAIN map THEN Some(map[p.value])
        ELSE project

UnprefixedCompileLine(line) ==
    /\ node_prefix_pattern(line) = None
    /\ compile_command_pattern(line)

\* C40: current_prefix changes only on a line that starts with a node
\* prefix (to the number of that prefix) and is never cleared; once a
\* prefixed line has been read, the commands of every later CL.exe line
\* without a prefix belong to the project of the most recent prefix, or to
\* current_project when that prefix is unmapped; and command_count is the
\* number of commands collected.
C40_PrefixPersists ==
    [][/\ current_prefix' # current_prefix =>
            /\ log_lines' # log_lines
            /\ line_prefix(Last(log_lines')) # None
            /\ current_prefix' = line_prefix(Last(log_lines'))
       /\ current_prefix # None => current_prefix' # None
       /\ ( /\ log_lines' # log_lines
            /\ most_recent_prefix(log_lines) # None
            /\ UnprefixedCompileLine(Last(log_lines')) ) =>
            LET owner == ProjectOfMostRecentPrefix(log_lines,
                             prefix_to_project', current_project')
                new   == SubSeq(log_commands', Len(log_commands) + 1,
                                Len(log_commands'))
            IN  \A i \in 1..Len(new) :
                   /\ owner # None
                   /\ new[i].directory
                        = path_to_normalized_string(owner.value.project_dir)
       /\ command_count' = Len(log_commands')
      ]_vars

\* An unprefixed CL.exe line read after a prefixed one gave commands to the
\* project of the prefix, which is not the current project.
C40_Witness ==
    /\ Len(log_lines) >= 2
    /\ UnprefixedCompileLine(Last(log_lines))
    /\ most_recent_prefix(Front(log_lines)) # None
    /\ PrefixIsMapped
    /\ current_project # Some(prefix_to_project[current_prefix.value])
    /\ log_commands # <<>>
    /\ Last(log_commands).directory
         = path_to_normalized_string(
               prefix_to_project[current_prefix.value].project_dir)
    /\ command_count = Len(log_commands)

====
